---- MODULE Spec2Model ----
(***************************************************************************)
(* Novi content pipeline: the three monitoring agents (RSS, YouTube,       *)
(* newsletter), their summarize handlers and the orchestrator, over the    *)
(* relational store declared in database/schema.ts.                        *)
(*                                                                         *)
(* Every await of a handler is a step of the process that runs it, so two  *)
(* requests can interleave exactly where the code can.  Strings are        *)
(* sequences of one-character strings; URLs are records of the shape the   *)
(* code's regular expressions recognise and the identifier they capture.   *)
(***************************************************************************)
EXTENDS Integers, Sequences, FiniteSets, TLC

\* ------------------------------------------------------------------ bounds
MaxCands == 2
MaxRequests == 3
MaxCycles == 1
MaxClock == 1
TruncMargin == 20
MaxProviders == 2
MaxReplicates == 2
MaxDurLen == 5
MaxTokens == 3
MaxLines == 3
MaxResults == 5
MaxQueryLen == 10

\* ------------------------------------------------------- program constants
ContentCap == 8000
MessageCap == 10

Procs == {1, 2}

Min(a, b) == IF a < b THEN a ELSE b
Max(a, b) == IF a < b THEN b ELSE a

\* A slice that takes its end index as inclusive, the variant against which
\* the truncation property C10 is tested.
slice_InclusiveEnd(s, start, end) ==
  LET len  == Len(s)
      from == IF start < 0 THEN Max(len + start, 0) ELSE Min(start, len)
      to   == IF end < 0 THEN Max(len + end + 1, 0) ELSE Min(end + 1, len)
  IN  IF from >= to THEN << >>
      ELSE [i \in 1..(to - from) |-> s[from + i]]

\* JavaScript's String.prototype.slice(start, end) on a sequence of
\* characters: negative indices count from the end, both are clamped to
\* 0..length, and the result is empty when start >= end.
slice(s, start, end) ==
  LET len  == Len(s)
      from == IF start < 0 THEN Max(len + start, 0) ELSE Min(start, len)
      to   == IF end < 0 THEN Max(len + end, 0) ELSE Min(end, len)
  IN  IF from >= to THEN << >>
      ELSE [i \in 1..(to - from) |-> s[from + i]]

\* A slice that keeps the whole list, the variant against which C27 is
\* tested.
Take_All(xs, n) == xs

\* Array.prototype.slice(0, n): the first n elements of a list.
Take(xs, n) == [i \in 1..Min(n, Len(xs)) |-> xs[i]]

\* ------------------------------------------------------------------- URLs
NoLink == [shape |-> "none", id |-> ""]
WebUrl(x) == [shape |-> "web", id |-> x]
WatchUrl(v) == [shape |-> "watch", id |-> v]
GmailUrl(m) == [shape |-> "gmail", id |-> m]
SourceUrl(shape, x) == [shape |-> shape, id |-> x]

NoId == ""

ChannelShapes == {"channel", "c", "user", "at"}

\* extractChannelIdFromUrl: the first of the four patterns that matches
\* yields its capture group, no match yields null.
extractChannelIdFromUrl(url) ==
  IF url.shape \in ChannelShapes THEN url.id ELSE NoId

\* channelSource.metadata?.channelId || extractChannelIdFromUrl(url)
ChannelIdOf(channelSource) ==
  IF channelSource.channelId # NoId THEN channelSource.channelId
  ELSE extractChannelIdFromUrl(channelSource.url)

\* extractVideoIdFromUrl: youtube.com/watch?v=<id> or youtu.be/<id>.
extractVideoIdFromUrl(url) ==
  IF url.shape \in {"watch", "youtu.be"} THEN url.id ELSE NoId

\* ------------------------------------------------------------ the store
Text0 == << >>
TextB == <<"b", "c">>

NoTime == -1

\* content_sources rows present when the service starts.  Rows of type
\* rss and newsletter are created outside this code base; the YouTube rows
\* are as handleAddSource writes them (channelId only when the URL matches).
SourceRow(id, type, url, channelId, isActive) ==
  [id |-> id, userId |-> "user1", type |-> type, url |-> url,
   channelId |-> channelId, lastChecked |-> NoTime, isActive |-> isActive]

InitSources ==
  { SourceRow("s1", "rss", SourceUrl("feed", "f1"), NoId, TRUE),
    SourceRow("s2", "newsletter", SourceUrl("mail", "box"), NoId, TRUE),
    SourceRow("s3", "youtube", SourceUrl("at", "chan"), "chan", TRUE),
    SourceRow("s4", "rss", SourceUrl("feed", "f2"), NoId, FALSE),
    SourceRow("s5", "youtube", SourceUrl("other", "p1"), NoId, FALSE) }

SourceIds == {"s1", "s2", "s3", "s4", "s5"}
NoSource == ""

\* The order in which a select without ORDER BY returns the source rows.
SourceOrder == <<"s1", "s2", "s3", "s4", "s5">>

UserIds == {"user1"}
NoUser == ""

NoItemId == [kind |-> "", src |-> "", loc |-> NoLink, n |-> 0]
UnknownItemId == [kind |-> "article", src |-> "gone", loc |-> NoLink, n |-> 0]
NoItem == [id |-> NoItemId, sourceId |-> "", type |-> "", url |-> NoLink,
           content |-> Text0]

VARIABLES
  content_sources,   \* table content_sources: a set of rows
  content_items,     \* table content_items: a set of rows
  summaries,         \* table summaries: a set of rows
  now,               \* the clock Date.now() reads
  pc,                \* pc[p]: where the agent handler run by p stands
  loc,               \* loc[p]: request and local variables of that handler
  resp,              \* resp[p]: the response the handler returned
  orch,              \* orch[p]: the orchestrator handler that p runs, if any
  started,           \* number of client requests accepted so far
  cycles,            \* number of monitoring cycles among them
  overlap,           \* whether a second request may start before the first ends
  examined,          \* history: (sourceId, url) pairs a monitor run examined
  prevMon,           \* history: the last monitor run that completed
  faults,            \* whether the store may reject an insert
  config,            \* process.env as the storage providers read it
  storage_locations, \* table storage_locations: a set of rows
  fan,               \* the storeSummaryMultiple call in progress, if any
  input,             \* the argument of the helper function under evaluation
  output             \* its result

vars == <<content_sources, content_items, summaries, now, pc, loc, resp,
          orch, started, cycles, overlap, examined, prevMon, faults, config,
          storage_locations, fan, input, output>>

\* What the agents' and the orchestrator's handlers never write.
aside == <<config, storage_locations, fan, input, output, faults>>

store == <<content_sources, content_items, summaries>>

\* A lookup by url alone, the variant against which C1 is tested.
SelectItems_AnySource(sid, url) ==
  {r \in content_items : r.url = url}

\* select ... where source_id = sid and url = url
SelectItems(sid, url) ==
  {r \in content_items : r.sourceId = sid /\ r.url = url}

\* select ... where id = id
SelectItemById(id) == {r \in content_items : r.id = id}

SelectSource(sid, type) ==
  {r \in content_sources : r.id = sid /\ r.type = type}

\* The generated primary key of a content item (a random string and a
\* timestamp in the code): a value no other row has.
NewItemId(kind, sid, url) ==
  [kind |-> kind, src |-> sid, loc |-> url,
   n |-> Cardinality(SelectItems(sid, url))]

\* update content_sources set metadata.lastChecked = t where id = sid
TouchSource(sid, t) ==
  {IF r.id = sid THEN [r EXCEPT !.lastChecked = t] ELSE r
     : r \in content_sources}

\* -------------------------------------------------------------- responses
NoSummaryId == [item |-> NoItemId, t |-> NoTime]

NoData == [summaryId |-> NoSummaryId, summary |-> "",
           keyPoints |-> "", topics |-> "", sentiment |-> "",
           confidence |-> ""]

NoResp == [set |-> FALSE, success |-> FALSE, error |-> "", newItems |-> -1,
           data |-> NoData]

Failure(msg) == [set |-> TRUE, success |-> FALSE, error |-> msg,
                 newItems |-> -1, data |-> NoData]

MonitorOk(n) == [set |-> TRUE, success |-> TRUE, error |-> "",
                 newItems |-> n, data |-> NoData]

SummaryOk(d) == [set |-> TRUE, success |-> TRUE, error |-> "",
                 newItems |-> -1, data |-> d]

\* ---------------------------------------------------------------- locals
NoOracle == [kind |-> "none", summary |-> "", keyPoints |-> "",
             topics |-> "", sentiment |-> "", confidence |-> ""]

IdleLoc ==
  [agent |-> "", action |-> "", caller |-> "",
   sourceId |-> NoSource, contentItemId |-> NoItemId, userId |-> NoUser,
   cands |-> << >>, fetchOk |-> FALSE, fetched |-> << >>, newItems |-> 0,
   tools |-> "none",
   detail |-> [subject |-> "Newsletter", text |-> Text0], repeat |-> FALSE,
   item |-> NoItem, transcript |-> Text0, fetchedTranscript |-> FALSE,
   prompt |-> Text0, oracle |-> NoOracle, summaryData |-> NoOracle,
   oracleCalls |-> 0,
   stamp |-> NoTime,
   concurrent |-> FALSE,
   fetchFailed |-> FALSE, detailFailed |-> FALSE, insertRejected |-> "",
   emailContent |-> << >>,
   items0 |-> {}, sums0 |-> {}]

NoMon == [sourceId |-> NoSource, ok |-> FALSE, fetched |-> << >>]

NoOrch == [pc |-> "none", action |-> "", payloadItem |-> NoItemId,
           payloadUser |-> NoUser, sources |-> << >>, idx |-> 0,
           results |-> << >>, raw |-> << >>, runs |-> 0, sums0 |-> {},
           resp |-> NoResp]

\* No replicate call is in progress.  results and errors are the call's
\* locals; outcomes is history, what became of each requested provider.
NoFan == [pc |-> "none", providers |-> << >>, idx |-> 0,
          summaryId |-> NoSummaryId, results |-> << >>, errors |-> << >>,
          outcomes |-> << >>, returned |-> "", value |-> << >>,
          sums0 |-> {}, calls |-> 0, docs |-> 0]

\* An environment in which no storage provider and no mirror is configured.
NoEnv == [notion |-> FALSE, google_docs |-> FALSE, supabase |-> FALSE]

NoInput == [fn |-> "", text |-> << >>, count |-> 0,
            item |-> [link |-> [shape |-> "none", id |-> ""],
                      encoded |-> << >>, content |-> << >>,
                      description |-> << >>, summary |-> << >>,
                      contentSnippet |-> << >>]]
NoOutput == [done |-> FALSE, seconds |-> 0, text |-> << >>, confidence |-> 0]

\* The storage manager is idle, no helper is under evaluation and the
\* store accepts every insert.
AsideIdle ==
  /\ faults = FALSE
  /\ config = NoEnv
  /\ storage_locations = {}
  /\ fan = NoFan
  /\ input = NoInput
  /\ output = NoOutput

Busy(p) == pc[p] # "idle" \/ orch[p].pc # "none"

\* A client request is taken by the lowest free process; without overlap
\* only when no other request is in progress.
CanStart(p) ==
  /\ ~Busy(p)
  /\ started < MaxRequests
  /\ \A q \in Procs : q < p => Busy(q)
  /\ overlap \/ \A q \in Procs : ~Busy(q)

Init ==
  /\ content_sources = InitSources
  /\ content_items = {}
  /\ summaries = {}
  /\ now = 0
  /\ pc = [p \in Procs |-> "idle"]
  /\ loc = [p \in Procs |-> IdleLoc]
  /\ resp = [p \in Procs |-> NoResp]
  /\ orch = [p \in Procs |-> NoOrch]
  /\ started = 0
  /\ cycles = 0
  /\ overlap = FALSE
  /\ examined = {}
  /\ prevMon = NoMon
  /\ AsideIdle

\* A monitor handler returns r: the run is over and becomes the last run.
MonDone(p, r) ==
  /\ pc' = [pc EXCEPT ![p] = "done"]
  /\ resp' = [resp EXCEPT ![p] = r]
  /\ prevMon' = IF loc[p].fetchOk /\ r.success
                 THEN [sourceId |-> loc[p].sourceId, ok |-> TRUE,
                       fetched |-> loc[p].fetched]
                 ELSE NoMon

\* A summarize handler returns r.
SumDone(p, r) ==
  /\ pc' = [pc EXCEPT ![p] = "done"]
  /\ resp' = [resp EXCEPT ![p] = r]
  /\ UNCHANGED prevMon

\* db.insert(contentItems) rejects and throws, where the store can fail
\* (faults): the store is unavailable, or the generated id (a random
\* string and Date.now()) repeats the primary key of a row of this type.
RejectCauses(type) ==
  IF ~faults THEN {}
  ELSE {"unavailable"} \cup
       (IF \E r \in content_items : r.type = type THEN {"duplicate"} ELSE {})

\* The request a handler starts with; the snapshots items0 and sums0 are
\* history, the tables as they were when the request arrived.
NewLoc(agent, action, caller, sid, cid, uid) ==
  [IdleLoc EXCEPT !.agent = agent, !.action = action, !.caller = caller,
                  !.sourceId = sid, !.contentItemId = cid, !.userId = uid,
                  !.items0 = content_items, !.sums0 = summaries]

\* A summarize request for item cid starts in p; it is concurrent with the
\* summarize handlers for the same item that are in progress (history).
InProgressSum(q, cid) ==
  pc[q] \notin {"idle", "done"} /\ loc[q].action = "summarize"
    /\ loc[q].contentItemId = cid

StartSum(p, agent, caller, cid, uid) ==
  [q \in Procs |->
     IF q = p
     THEN [NewLoc(agent, "summarize", caller, NoSource, cid, uid)
             EXCEPT !.concurrent = \E o \in Procs \ {p} : InProgressSum(o, cid)]
     ELSE IF InProgressSum(q, cid) THEN [loc[q] EXCEPT !.concurrent = TRUE]
     ELSE loc[q]]

\* Date.now(): the clock has not moved since it was last read, or it has.
Clock == now..Min(now + 1, MaxClock)

\* ------------------------------------------------------------ the oracle
Undef == "undefined"
Null == "NULL"

Json(sum, kp, top, sen, con) ==
  [kind |-> "object", summary |-> sum, keyPoints |-> kp, topics |-> top,
   sentiment |-> sen, confidence |-> con]

\* What llm.invoke does: it throws (timeout, non-2xx), or it returns a
\* text that is not JSON, the JSON value null, or a JSON object that holds
\* all or some of the five fields.
OracleOutcomes ==
  { [NoOracle EXCEPT !.kind = "throw"],
    [NoOracle EXCEPT !.kind = "nonjson"],
    [NoOracle EXCEPT !.kind = "null"],
    Json("S1", "K1", "T1", "positive", "85"),
    Json("S1", Undef, "T1", "positive", Undef),
    Json(Undef, "K1", "T1", "positive", "85") }

\* A parse that falls back to the raw text as the summary when the text is
\* not JSON, the variant against which C7 is tested.
OracleResult_Fallback(o) ==
  CASE o.kind = "throw" -> [error |-> "oracle call failed", data |-> NoOracle]
    [] o.kind = "nonjson" ->
         [error |-> "", data |-> [NoOracle EXCEPT !.kind = "object",
                                                   !.summary = "raw"]]
    [] o.kind = "null" -> [error |-> "Cannot read properties of null", data |-> NoOracle]
    [] OTHER -> [error |-> "", data |-> o]

\* llm.invoke followed by JSON.parse and the reads of summaryData's
\* fields: the error thrown on the way, or the parsed object.
OracleResult(o) ==
  CASE o.kind = "throw" -> [error |-> "oracle call failed", data |-> NoOracle]
    [] o.kind = "nonjson" -> [error |-> "Unexpected token in JSON", data |-> NoOracle]
    [] o.kind = "null" -> [error |-> "Cannot read properties of null", data |-> NoOracle]
    [] OTHER -> [error |-> "", data |-> o]

FiveFields == {"summary", "keyPoints", "topics", "sentiment", "confidence"}

\* A column that is not given a value is stored as NULL.
Nullable(v) == IF v = Undef THEN Null ELSE v

SummaryRow(id, cid, uid, d) ==
  [id |-> id, contentItemId |-> cid, userId |-> uid,
   summary |-> d.summary, keyPoints |-> Nullable(d.keyPoints),
   sentiment |-> Nullable(d.sentiment), topics |-> Nullable(d.topics),
   confidence |-> Nullable(d.confidence)]

\* The data of a summarize success response.
SummaryData(id, d) ==
  [summaryId |-> id, summary |-> d.summary, keyPoints |-> d.keyPoints,
   topics |-> d.topics, sentiment |-> d.sentiment,
   confidence |-> d.confidence]

\* insert into summaries: the primary key id and the NOT NULL column
\* summary are the constraints the schema declares.
SummaryInsertError(id, d) ==
  IF \E r \in summaries : r.id = id THEN "Duplicate entry for key PRIMARY"
  ELSE IF d.summary = Undef THEN "Field summary doesn't have a default value"
  ELSE ""

\* All sequences of length 0..n over S.
SeqsUpTo(S, n) == UNION {[1..k -> S] : k \in 0..n}

At(p, agent, label) == loc[p].agent = agent /\ pc[p] = label

\* ============================================================ RSS agent
\* Characters String.prototype.trim() removes.
WhiteSpace == {" ", "\n", "\t", "\r"}

RECURSIVE StripTags(_)
\* replace(/<[^>]*>/g, ''): a '<' opens a tag only when a '>' follows it.
StripTags(s) ==
  IF s = << >> THEN << >>
  ELSE IF Head(s) = "<" /\ \E j \in 2..Len(s) : s[j] = ">"
       THEN LET j == CHOOSE k \in 2..Len(s) :
                       s[k] = ">" /\ \A m \in 2..(k - 1) : s[m] # ">"
            IN  StripTags(SubSeq(s, j + 1, Len(s)))
       ELSE <<Head(s)>> \o StripTags(Tail(s))

IsPrefix(pat, s) ==
  Len(pat) <= Len(s) /\ SubSeq(s, 1, Len(pat)) = pat

RECURSIVE ReplaceAll(_, _, _)
\* replace(/pat/g, rep) for a literal pattern: non-overlapping matches,
\* left to right, the replacement text is not scanned again.
ReplaceAll(s, pat, rep) ==
  IF s = << >> THEN << >>
  ELSE IF IsPrefix(pat, s)
       THEN rep \o ReplaceAll(SubSeq(s, Len(pat) + 1, Len(s)), pat, rep)
       ELSE <<Head(s)>> \o ReplaceAll(Tail(s), pat, rep)

RECURSIVE TrimLeft(_)
TrimLeft(s) ==
  IF s # << >> /\ Head(s) \in WhiteSpace THEN TrimLeft(Tail(s)) ELSE s

RECURSIVE TrimRight(_)
TrimRight(s) ==
  IF s # << >> /\ s[Len(s)] \in WhiteSpace
  THEN TrimRight(SubSeq(s, 1, Len(s) - 1)) ELSE s

trim(s) == TrimRight(TrimLeft(s))

stripHtml(html) ==
  LET s0 == StripTags(html)
      s1 == ReplaceAll(s0, <<"&", "n", "b", "s", "p", ";">>, <<" ">>)
      s2 == ReplaceAll(s1, <<"&", "a", "m", "p", ";">>, <<"&">>)
      s3 == ReplaceAll(s2, <<"&", "l", "t", ";">>, <<"<">>)
      s4 == ReplaceAll(s3, <<"&", "g", "t", ";">>, <<">">>)
      s5 == ReplaceAll(s4, <<"&", "q", "u", "o", "t", ";">>, <<"\"">>)
  IN  trim(s5)

\* An order that prefers the snippet, the variant against which C25 is
\* tested.
contentFields_SnippetFirst ==
  <<"contentSnippet", "encoded", "content", "description", "summary">>

\* The fields of a feed item in the order extractContent tries them
\* ('content:encoded' is written encoded).
contentFields == <<"encoded", "content", "description", "summary",
                   "contentSnippet">>

\* The value of a field the feed item does not have.
Absent == <<"undefined">>

\* if (item[field]): the field is there and is not the empty string.
Truthy(v) == v # Absent /\ v # << >>

RECURSIVE FirstField(_, _)
FirstField(item, i) ==
  IF i > Len(contentFields) THEN << >>
  ELSE IF Truthy(item[contentFields[i]])
       THEN stripHtml(item[contentFields[i]])
       ELSE FirstField(item, i + 1)

extractContent(item) == FirstField(item, 1)

RssItem(link, enc, con, des, sum, snip) ==
  [link |-> link, encoded |-> enc, content |-> con, description |-> des,
   summary |-> sum, contentSnippet |-> snip]

\* The items a feed can hold: an article with text, an item that links to
\* a video and has no text, and an item without a link.
RssItems ==
  { RssItem(WebUrl("a1"), << >>, << >>, <<"<", "p", ">", "a", "<", "/", "p", ">">>,
            <<"z">>, << >>),
    RssItem(WatchUrl("v1"), << >>, << >>, << >>, << >>, << >>),
    RssItem(NoLink, <<"b">>, << >>, << >>, << >>, << >>) }

Feeds == SeqsUpTo(RssItems, MaxCands)

\* Agent(): the switch of the RSS agent, for the actions monitor and
\* summarize of a client request.
RssAgent(p) ==
  /\ CanStart(p)
  /\ \/ \E sid \in SourceIds \cup {NoSource} :
          /\ loc' = [loc EXCEPT ![p] =
                       NewLoc("rss-agent", "monitor", "client", sid,
                              NoItemId, NoUser)]
          /\ pc' = [pc EXCEPT ![p] = "m_source"]
     \/ \E cid \in {r.id : r \in content_items} \cup {UnknownItemId, NoItemId},
           uid \in UserIds \cup {NoUser} :
          /\ loc' = StartSum(p, "rss-agent", "client", cid, uid)
          /\ pc' = [pc EXCEPT ![p] = "s_load"]
  /\ resp' = [resp EXCEPT ![p] = NoResp]
  /\ orch' = [orch EXCEPT ![p] = NoOrch]
  /\ started' = started + 1
  /\ UNCHANGED <<aside, store, now, cycles, overlap, examined, prevMon>>

\* handleMonitoring, up to the select of the source row.
RssMonitor_Source(p) ==
  /\ At(p, "rss-agent", "m_source")
  /\ IF loc[p].sourceId = NoSource
     THEN /\ MonDone(p, Failure("sourceId is required for monitoring"))
     ELSE IF SelectSource(loc[p].sourceId, "rss") = {}
     THEN /\ MonDone(p, Failure("RSS source not found"))
     ELSE /\ pc' = [pc EXCEPT ![p] = "m_fetch"]
          /\ UNCHANGED <<resp, prevMon>>
  /\ UNCHANGED <<aside, store, now, loc, orch, started, cycles, overlap, examined>>

\* parser.parseURL(feedUrl): the feed is unreachable or unparseable and the
\* call throws, or it returns the feed's items.
RssMonitor_Fetch(p) ==
  /\ At(p, "rss-agent", "m_fetch")
  /\ \/ /\ MonDone(p, Failure("feed fetch failed"))
        /\ loc' = [loc EXCEPT ![p].fetchFailed = TRUE]
     \/ \E feed \in Feeds :
          /\ loc' = [loc EXCEPT ![p].cands = feed, ![p].fetched = feed,
                                ![p].fetchOk = TRUE, ![p].newItems = 0,
                                ![p].repeat =
                                  /\ prevMon.sourceId = loc[p].sourceId
                                  /\ prevMon.ok
                                  /\ prevMon.fetched = feed]
          /\ pc' = [pc EXCEPT ![p] = "m_loop"]
          /\ UNCHANGED <<resp, prevMon>>
  /\ UNCHANGED <<aside, store, now, orch, started, cycles, overlap, examined>>

\* A loop head that inserts every article that has a link, whether or not
\* the select found it: the variant against which C2 is tested.
RssMonitor_Check_NoLookup(p) ==
  /\ At(p, "rss-agent", "m_loop")
  /\ loc[p].cands # << >>
  /\ LET item == Head(loc[p].cands)
     IN  /\ IF item.link # NoLink
            THEN /\ pc' = [pc EXCEPT ![p] = "m_insert"]
                 /\ UNCHANGED loc
            ELSE /\ loc' = [loc EXCEPT ![p].cands = Tail(@)]
                 /\ UNCHANGED pc
         /\ examined' = IF item.link # NoLink
                        THEN examined \cup {<<loc[p].sourceId, item.link>>}
                        ELSE examined
  /\ UNCHANGED <<aside, store, now, resp, orch, started, cycles, overlap, prevMon>>

\* The head of the for loop: the select that looks for the article, and
\* the test that decides whether it is inserted.
RssMonitor_Check(p) ==
  /\ At(p, "rss-agent", "m_loop")
  /\ loc[p].cands # << >>
  /\ LET item == Head(loc[p].cands)
         existing == SelectItems(loc[p].sourceId, item.link)
     IN  /\ IF existing = {} /\ item.link # NoLink
            THEN /\ pc' = [pc EXCEPT ![p] = "m_insert"]
                 /\ UNCHANGED loc
            ELSE /\ loc' = [loc EXCEPT ![p].cands = Tail(@)]
                 /\ UNCHANGED pc
         /\ examined' = IF item.link # NoLink
                        THEN examined \cup {<<loc[p].sourceId, item.link>>}
                        ELSE examined
  /\ UNCHANGED <<aside, store, now, resp, orch, started, cycles, overlap, prevMon>>

\* The body of the if: the insert of the new article.  A rejected insert
\* throws to the catch of handleMonitoring, which answers with a failure.
RssMonitor_Insert(p) ==
  /\ At(p, "rss-agent", "m_insert")
  /\ \/ /\ LET item == Head(loc[p].cands)
           IN  content_items' = content_items \cup
                 { [id |-> NewItemId("article", loc[p].sourceId, item.link),
                    sourceId |-> loc[p].sourceId, type |-> "article",
                    url |-> item.link, content |-> extractContent(item)] }
        /\ loc' = [loc EXCEPT ![p].cands = Tail(@), ![p].newItems = @ + 1]
        /\ pc' = [pc EXCEPT ![p] = "m_loop"]
        /\ UNCHANGED <<resp, prevMon>>
     \/ \E cause \in RejectCauses("article") :
          /\ loc' = [loc EXCEPT ![p].insertRejected = cause]
          /\ MonDone(p, Failure("insert failed"))
          /\ UNCHANGED content_items
  /\ UNCHANGED <<aside, content_sources, summaries, now, orch, started, cycles,
                 overlap, examined>>

\* After the loop: the update of lastChecked and the success response.
RssMonitor_Update(p) ==
  /\ At(p, "rss-agent", "m_loop")
  /\ loc[p].cands = << >>
  /\ content_sources' = TouchSource(loc[p].sourceId, now)
  /\ MonDone(p, MonitorOk(loc[p].newItems))
  /\ UNCHANGED <<aside, content_items, summaries, now, loc, orch, started, cycles, overlap,
                 examined>>

\* A handler without the test of the item's content, the variant against
\* which C9 is tested.
RssSummarize_Load_NoContentTest(p) ==
  /\ At(p, "rss-agent", "s_load")
  /\ LET found == SelectItemById(loc[p].contentItemId)
         item == CHOOSE r \in found : TRUE
     IN  IF loc[p].contentItemId = NoItemId \/ loc[p].userId = NoUser
         THEN /\ SumDone(p, Failure("contentItemId and userId are required for summarization"))
              /\ UNCHANGED loc
         ELSE IF found = {}
         THEN /\ SumDone(p, Failure("Content item not found"))
              /\ UNCHANGED loc
         ELSE /\ loc' = [loc EXCEPT ![p].item = item,
                                    ![p].transcript = item.content,
                                    ![p].prompt = slice(item.content, 0, ContentCap)]
              /\ pc' = [pc EXCEPT ![p] = "s_oracle"]
              /\ UNCHANGED <<resp, prevMon>>
  /\ UNCHANGED <<aside, store, now, orch, started, cycles, overlap, examined>>

\* handleSummarization, up to the prompt: the validation, the select of
\* the content item and the test of its content.
RssSummarize_Load(p) ==
  /\ At(p, "rss-agent", "s_load")
  /\ LET found == SelectItemById(loc[p].contentItemId)
         item == CHOOSE r \in found : TRUE
     IN  IF loc[p].contentItemId = NoItemId \/ loc[p].userId = NoUser
         THEN /\ SumDone(p, Failure("contentItemId and userId are required for summarization"))
              /\ UNCHANGED loc
         ELSE IF found = {}
         THEN /\ SumDone(p, Failure("Content item not found"))
              /\ UNCHANGED loc
         ELSE IF item.content = << >>
         THEN /\ SumDone(p, Failure("No content available for this article"))
              /\ loc' = [loc EXCEPT ![p].item = item]
         ELSE /\ loc' = [loc EXCEPT ![p].item = item,
                                    ![p].transcript = item.content,
                                    ![p].prompt = slice(item.content, 0, ContentCap)]
              /\ pc' = [pc EXCEPT ![p] = "s_oracle"]
              /\ UNCHANGED <<resp, prevMon>>
  /\ UNCHANGED <<aside, store, now, orch, started, cycles, overlap, examined>>

\* llm.invoke and JSON.parse, and the summary id made from Date.now().
RssSummarize_Oracle(p) ==
  /\ At(p, "rss-agent", "s_oracle")
  /\ \E o \in OracleOutcomes, t \in Clock :
       LET res == OracleResult(o)
       IN  IF res.error # ""
           THEN /\ loc' = [loc EXCEPT ![p].oracle = o, ![p].oracleCalls = @ + 1]
                /\ SumDone(p, Failure(res.error))
                /\ UNCHANGED now
           ELSE /\ loc' = [loc EXCEPT ![p].oracle = o, ![p].oracleCalls = @ + 1,
                                      ![p].summaryData = res.data,
                                      ![p].stamp = t]
                /\ now' = t
                /\ pc' = [pc EXCEPT ![p] = "s_insert"]
                /\ UNCHANGED <<resp, prevMon>>
  /\ UNCHANGED <<aside, store, orch, started, cycles, overlap, examined>>

\* The insert into summaries and the success response.
RssSummarize_Insert(p) ==
  /\ At(p, "rss-agent", "s_insert")
  /\ LET id == [item |-> loc[p].item.id, t |-> loc[p].stamp]
         d == loc[p].summaryData
         err == SummaryInsertError(id, d)
     IN  IF err # ""
         THEN /\ SumDone(p, Failure(err))
              /\ UNCHANGED summaries
         ELSE /\ summaries' = summaries \cup
                    {SummaryRow(id, loc[p].contentItemId, loc[p].userId, d)}
              /\ SumDone(p, SummaryOk(SummaryData(id, d)))
  /\ UNCHANGED <<aside, content_sources, content_items, now, loc, orch, started, cycles,
                 overlap, examined>>

\* ======================================================== YouTube agent
\* fetchRecentVideos: the YouTube API is not integrated, the list is empty.
fetchRecentVideos(channelId) == << >>

\* Agent(): the switch of the YouTube agent, for monitor and summarize.
YouTubeAgent(p) ==
  /\ CanStart(p)
  /\ \/ \E sid \in SourceIds \cup {NoSource} :
          /\ loc' = [loc EXCEPT ![p] =
                       NewLoc("youtube-agent", "monitor", "client", sid,
                              NoItemId, NoUser)]
          /\ pc' = [pc EXCEPT ![p] = "m_source"]
     \/ \E cid \in {r.id : r \in content_items} \cup {UnknownItemId, NoItemId},
           uid \in UserIds \cup {NoUser} :
          /\ loc' = StartSum(p, "youtube-agent", "client", cid, uid)
          /\ pc' = [pc EXCEPT ![p] = "s_load"]
  /\ resp' = [resp EXCEPT ![p] = NoResp]
  /\ orch' = [orch EXCEPT ![p] = NoOrch]
  /\ started' = started + 1
  /\ UNCHANGED <<aside, store, now, cycles, overlap, examined, prevMon>>

\* A handler that goes on to fetchRecentVideos whether or not it has a
\* channel id, the variant against which C24 is tested.
YouTubeMonitor_Source_NoChannelTest(p) ==
  /\ At(p, "youtube-agent", "m_source")
  /\ LET source == SelectSource(loc[p].sourceId, "youtube")
     IN  IF loc[p].sourceId = NoSource
         THEN MonDone(p, Failure("sourceId is required for monitoring"))
         ELSE IF source = {}
         THEN MonDone(p, Failure("YouTube source not found"))
         ELSE /\ pc' = [pc EXCEPT ![p] = "m_fetch"]
              /\ UNCHANGED <<resp, prevMon>>
  /\ UNCHANGED <<aside, store, now, loc, orch, started, cycles, overlap, examined>>

\* handleMonitoring, up to the call of fetchRecentVideos.
YouTubeMonitor_Source(p) ==
  /\ At(p, "youtube-agent", "m_source")
  /\ LET source == SelectSource(loc[p].sourceId, "youtube")
         channelSource == CHOOSE r \in source : TRUE
         channelId == ChannelIdOf(channelSource)
     IN  IF loc[p].sourceId = NoSource
         THEN MonDone(p, Failure("sourceId is required for monitoring"))
         ELSE IF source = {}
         THEN MonDone(p, Failure("YouTube source not found"))
         ELSE IF channelId = NoId
         THEN MonDone(p, Failure("Could not extract channel ID from source"))
         ELSE /\ pc' = [pc EXCEPT ![p] = "m_fetch"]
              /\ UNCHANGED <<resp, prevMon>>
  /\ UNCHANGED <<aside, store, now, loc, orch, started, cycles, overlap, examined>>

\* fetchRecentVideos returns.
YouTubeMonitor_Fetch(p) ==
  /\ At(p, "youtube-agent", "m_fetch")
  /\ LET channelSource == CHOOSE r \in SelectSource(loc[p].sourceId, "youtube") : TRUE
         videos == fetchRecentVideos(ChannelIdOf(channelSource))
     IN  loc' = [loc EXCEPT ![p].cands = videos, ![p].fetched = videos,
                            ![p].fetchOk = TRUE, ![p].newItems = 0,
                            ![p].repeat =
                              /\ prevMon.sourceId = loc[p].sourceId
                              /\ prevMon.ok
                              /\ prevMon.fetched = videos]
  /\ pc' = [pc EXCEPT ![p] = "m_loop"]
  /\ UNCHANGED <<aside, store, now, resp, orch, started, cycles, overlap, examined, prevMon>>

\* The for loop over the videos (select, then insert of a new video) and,
\* after it, the update of lastChecked and the success response.
YouTubeMonitor_Loop(p) ==
  /\ loc[p].agent = "youtube-agent"
  /\ pc[p] \in {"m_loop", "m_insert"}
  /\ IF loc[p].cands = << >>
     THEN /\ content_sources' = TouchSource(loc[p].sourceId, now)
          /\ MonDone(p, MonitorOk(loc[p].newItems))
          /\ UNCHANGED <<content_items, loc, examined>>
     ELSE LET video == Head(loc[p].cands)
              url == WatchUrl(video.id)
          IN  IF pc[p] = "m_loop"
              THEN /\ IF SelectItems(loc[p].sourceId, url) = {}
                      THEN /\ pc' = [pc EXCEPT ![p] = "m_insert"]
                           /\ UNCHANGED loc
                      ELSE /\ loc' = [loc EXCEPT ![p].cands = Tail(@)]
                           /\ UNCHANGED pc
                   /\ examined' = examined \cup {<<loc[p].sourceId, url>>}
                   /\ UNCHANGED <<content_sources, content_items, resp, prevMon>>
              ELSE /\ \/ /\ content_items' = content_items \cup
                              { [id |-> NewItemId("video", loc[p].sourceId, url),
                                 sourceId |-> loc[p].sourceId,
                                 type |-> "video", url |-> url,
                                 content |-> video.transcript] }
                         /\ loc' = [loc EXCEPT ![p].cands = Tail(@),
                                               ![p].newItems = @ + 1]
                         /\ pc' = [pc EXCEPT ![p] = "m_loop"]
                         /\ UNCHANGED <<resp, prevMon>>
                      \/ \E cause \in RejectCauses("video") :
                           /\ loc' = [loc EXCEPT ![p].insertRejected = cause]
                           /\ MonDone(p, Failure("insert failed"))
                           /\ UNCHANGED content_items
                   /\ UNCHANGED <<content_sources, examined>>
  /\ UNCHANGED <<aside, summaries, now, orch, started, cycles, overlap>>

\* handleSummarization, up to the transcript: the validation, the select
\* of the content item, and the decision to fetch the transcript.
YouTubeSummarize_Load(p) ==
  /\ At(p, "youtube-agent", "s_load")
  /\ LET found == SelectItemById(loc[p].contentItemId)
         item == CHOOSE r \in found : TRUE
     IN  IF loc[p].contentItemId = NoItemId \/ loc[p].userId = NoUser
         THEN /\ SumDone(p, Failure("contentItemId and userId are required for summarization"))
              /\ UNCHANGED loc
         ELSE IF found = {}
         THEN /\ SumDone(p, Failure("Content item not found"))
              /\ UNCHANGED loc
         ELSE IF item.content = << >> /\ item.url # NoLink
                   /\ extractVideoIdFromUrl(item.url) # NoId
         THEN /\ loc' = [loc EXCEPT ![p].item = item]
              /\ pc' = [pc EXCEPT ![p] = "s_transcript"]
              /\ UNCHANGED <<resp, prevMon>>
         ELSE IF item.content = << >>
         THEN /\ SumDone(p, Failure("No transcript available for this video"))
              /\ loc' = [loc EXCEPT ![p].item = item]
         ELSE /\ loc' = [loc EXCEPT ![p].item = item,
                                    ![p].transcript = item.content,
                                    ![p].prompt = slice(item.content, 0, ContentCap)]
              /\ pc' = [pc EXCEPT ![p] = "s_oracle"]
              /\ UNCHANGED <<resp, prevMon>>
  /\ UNCHANGED <<aside, store, now, orch, started, cycles, overlap, examined>>

\* A handler that writes the transcript it fetched into the content item,
\* the variant against which C23 is tested.
YouTubeSummarize_Transcript_Store(p) ==
  /\ At(p, "youtube-agent", "s_transcript")
  /\ \E transcript \in {Text0, TextB} :
       IF transcript = << >>
       THEN /\ SumDone(p, Failure("No transcript available for this video"))
            /\ loc' = [loc EXCEPT ![p].fetchedTranscript = TRUE]
            /\ UNCHANGED content_items
       ELSE /\ loc' = [loc EXCEPT ![p].fetchedTranscript = TRUE,
                                  ![p].transcript = transcript,
                                  ![p].prompt = slice(transcript, 0, ContentCap)]
            /\ content_items' =
                 {IF r.id = loc[p].item.id THEN [r EXCEPT !.content = transcript]
                    ELSE r : r \in content_items}
            /\ pc' = [pc EXCEPT ![p] = "s_oracle"]
            /\ UNCHANGED <<resp, prevMon>>
  /\ UNCHANGED <<aside, content_sources, summaries, now, orch, started, cycles,
                 overlap, examined>>

\* getVideoTranscript returns: the empty string (no transcript tool, or
\* the tool failed) or the transcript the tool produced.
YouTubeSummarize_Transcript(p) ==
  /\ At(p, "youtube-agent", "s_transcript")
  /\ \E transcript \in {Text0, TextB} :
       IF transcript = << >>
       THEN /\ SumDone(p, Failure("No transcript available for this video"))
            /\ loc' = [loc EXCEPT ![p].fetchedTranscript = TRUE]
       ELSE /\ loc' = [loc EXCEPT ![p].fetchedTranscript = TRUE,
                                  ![p].transcript = transcript,
                                  ![p].prompt = slice(transcript, 0, ContentCap)]
            /\ pc' = [pc EXCEPT ![p] = "s_oracle"]
            /\ UNCHANGED <<resp, prevMon>>
  /\ UNCHANGED <<aside, store, now, orch, started, cycles, overlap, examined>>

\* A handler that calls llm.invoke a second time when the first call
\* failed, the variant against which C22 is tested.
YouTubeSummarize_Oracle_Retry(p) ==
  /\ At(p, "youtube-agent", "s_oracle")
  /\ \E o \in OracleOutcomes, t \in Clock :
       LET res == OracleResult(o)
       IN  IF res.error # "" /\ loc[p].oracleCalls = 0
           THEN /\ loc' = [loc EXCEPT ![p].oracle = o, ![p].oracleCalls = @ + 1]
                /\ UNCHANGED <<now, pc, resp, prevMon>>
           ELSE IF res.error # ""
           THEN /\ loc' = [loc EXCEPT ![p].oracle = o, ![p].oracleCalls = @ + 1]
                /\ SumDone(p, Failure(res.error))
                /\ UNCHANGED now
           ELSE /\ loc' = [loc EXCEPT ![p].oracle = o, ![p].oracleCalls = @ + 1,
                                      ![p].summaryData = res.data,
                                      ![p].stamp = t]
                /\ now' = t
                /\ pc' = [pc EXCEPT ![p] = "s_insert"]
                /\ UNCHANGED <<resp, prevMon>>
  /\ UNCHANGED <<aside, store, orch, started, cycles, overlap, examined>>

\* llm.invoke and JSON.parse, and the summary id made from Date.now().
YouTubeSummarize_Oracle(p) ==
  /\ At(p, "youtube-agent", "s_oracle")
  /\ \E o \in OracleOutcomes, t \in Clock :
       LET res == OracleResult(o)
       IN  IF res.error # ""
           THEN /\ loc' = [loc EXCEPT ![p].oracle = o, ![p].oracleCalls = @ + 1]
                /\ SumDone(p, Failure(res.error))
                /\ UNCHANGED now
           ELSE /\ loc' = [loc EXCEPT ![p].oracle = o, ![p].oracleCalls = @ + 1,
                                      ![p].summaryData = res.data,
                                      ![p].stamp = t]
                /\ now' = t
                /\ pc' = [pc EXCEPT ![p] = "s_insert"]
                /\ UNCHANGED <<resp, prevMon>>
  /\ UNCHANGED <<aside, store, orch, started, cycles, overlap, examined>>

\* The insert into summaries and the success response.
YouTubeSummarize_Insert(p) ==
  /\ At(p, "youtube-agent", "s_insert")
  /\ LET id == [item |-> loc[p].item.id, t |-> loc[p].stamp]
         d == loc[p].summaryData
         err == SummaryInsertError(id, d)
     IN  IF err # ""
         THEN /\ SumDone(p, Failure(err))
              /\ UNCHANGED summaries
         ELSE /\ summaries' = summaries \cup
                    {SummaryRow(id, loc[p].contentItemId, loc[p].userId, d)}
              /\ SumDone(p, SummaryOk(SummaryData(id, d)))
  /\ UNCHANGED <<aside, content_sources, content_items, now, loc, orch, started, cycles,
                 overlap, examined>>

\* ===================================================== newsletter agent
Msg(id, messageId, threadId) ==
  [id |-> id, messageId |-> messageId, threadId |-> threadId]

\* m.id || m.messageId || m.threadId
MessageKey(m) ==
  IF m.id # NoId THEN m.id
  ELSE IF m.messageId # NoId THEN m.messageId
  ELSE m.threadId

MailMessages == {Msg(NoId, "m1", NoId), Msg(NoId, NoId, NoId)}

MailLists == SeqsUpTo(MailMessages, MaxCands)

\* What the Composio tool list of the newsletter agent offers: nothing, a
\* list tool only, or a list tool and a get tool.
ToolSets == {"none", "list", "list+get"}

NoDetail == [subject |-> "Newsletter", text |-> Text0]

\* What getTool.execute returns for one message: a value without subject
\* and text (the defaults stay), or the subject and the text of the message.
Details == {NoDetail, [subject |-> "Weekly", text |-> TextB]}

\* Agent(): the switch of the newsletter agent, for monitor and summarize;
\* the monitor requests are for one of the sources sids and the summarize
\* requests for one of the items cids.
NewsletterAgent_For(p, sids, cids) ==
  /\ CanStart(p)
  /\ \/ \E sid \in sids :
          /\ loc' = [loc EXCEPT ![p] =
                       NewLoc("newsletter-agent", "monitor", "client", sid,
                              NoItemId, NoUser)]
          /\ pc' = [pc EXCEPT ![p] = "m_source"]
     \/ \E cid \in cids, uid \in UserIds \cup {NoUser} :
          /\ loc' = StartSum(p, "newsletter-agent", "client", cid, uid)
          /\ pc' = [pc EXCEPT ![p] = "s_load"]
  /\ resp' = [resp EXCEPT ![p] = NoResp]
  /\ orch' = [orch EXCEPT ![p] = NoOrch]
  /\ started' = started + 1
  /\ UNCHANGED <<aside, store, now, cycles, overlap, examined, prevMon>>

NewsletterAgent(p) ==
  NewsletterAgent_For(p, SourceIds \cup {NoSource},
                      {r.id : r \in content_items} \cup {UnknownItemId, NoItemId})

\* handleMonitoring, up to the tools getToolsForAgent returns, which are
\* one of toolSets.
NewsletterMonitor_SourceWith(p, toolSets) ==
  /\ At(p, "newsletter-agent", "m_source")
  /\ IF loc[p].sourceId = NoSource
     THEN /\ MonDone(p, Failure("sourceId is required for monitoring"))
          /\ UNCHANGED loc
     ELSE IF SelectSource(loc[p].sourceId, "newsletter") = {}
     THEN /\ MonDone(p, Failure("Newsletter source not found"))
          /\ UNCHANGED loc
     ELSE /\ \E tools \in toolSets :
               loc' = [loc EXCEPT ![p].tools = tools, ![p].newItems = 0]
          /\ pc' = [pc EXCEPT ![p] = "m_fetch"]
          /\ UNCHANGED <<resp, prevMon>>
  /\ UNCHANGED <<aside, store, now, orch, started, cycles, overlap, examined>>

NewsletterMonitor_Source(p) == NewsletterMonitor_SourceWith(p, ToolSets)

\* The inner try up to the loop: without a list tool nothing is listed;
\* listTool.execute throws, which the inner catch logs, or returns the
\* messages, of which the first ten are taken.
NewsletterMonitor_FetchFrom(p, lists) ==
  /\ At(p, "newsletter-agent", "m_fetch")
  /\ IF loc[p].tools = "none"
     THEN loc' = [loc EXCEPT ![p].cands = << >>]
     ELSE \/ loc' = [loc EXCEPT ![p].cands = << >>, ![p].fetchFailed = TRUE]
          \/ \E messages \in lists :
               loc' = [loc EXCEPT ![p].cands = Take(messages, MessageCap),
                                  ![p].fetched = messages,
                                  ![p].fetchOk = TRUE,
                                  ![p].repeat =
                                    /\ prevMon.sourceId = loc[p].sourceId
                                    /\ prevMon.ok
                                    /\ prevMon.fetched = messages]
  /\ pc' = [pc EXCEPT ![p] = "m_loop"]
  /\ UNCHANGED <<aside, store, now, resp, orch, started, cycles, overlap, examined, prevMon>>

\* The inner try up to the loop, for the listings of a small mailbox.
NewsletterMonitor_Fetch(p) == NewsletterMonitor_FetchFrom(p, MailLists)

\* The head of the for loop: a message without id is passed over; the
\* select looks for the message's item; a message that has none goes on
\* to the get tool, or straight to the insert when there is no get tool.
NewsletterMonitor_Check(p) ==
  /\ At(p, "newsletter-agent", "m_loop")
  /\ loc[p].cands # << >>
  /\ LET id == MessageKey(Head(loc[p].cands))
         existing == SelectItems(loc[p].sourceId, GmailUrl(id))
     IN  IF id = NoId
         THEN /\ loc' = [loc EXCEPT ![p].cands = Tail(@)]
              /\ UNCHANGED <<pc, examined>>
         ELSE /\ examined' = examined \cup {<<loc[p].sourceId, GmailUrl(id)>>}
              /\ IF existing # {}
                 THEN /\ loc' = [loc EXCEPT ![p].cands = Tail(@)]
                      /\ UNCHANGED pc
                 ELSE /\ loc' = [loc EXCEPT ![p].detail = NoDetail,
                                            ![p].detailFailed = FALSE]
                      /\ pc' = [pc EXCEPT ![p] =
                                  IF loc[p].tools = "list+get"
                                  THEN "m_detail" ELSE "m_insert"]
  /\ UNCHANGED <<aside, store, now, resp, orch, started, cycles, overlap, prevMon>>

\* getTool.execute({ id }) inside its own try: a throw is ignored and the
\* defaults stay; a returned message gives its subject and text.
NewsletterMonitor_Detail(p) ==
  /\ At(p, "newsletter-agent", "m_detail")
  /\ \/ loc' = [loc EXCEPT ![p].detailFailed = TRUE]
     \/ \E full \in Details : loc' = [loc EXCEPT ![p].detail = full]
  /\ pc' = [pc EXCEPT ![p] = "m_insert"]
  /\ UNCHANGED <<aside, store, now, resp, orch, started, cycles, overlap, examined, prevMon>>

\* The insert of the newsletter item.  A rejected insert throws to the
\* inner catch, which logs it: the loop is left and the handler goes on
\* to the update of lastChecked.
NewsletterMonitor_Insert(p) ==
  /\ At(p, "newsletter-agent", "m_insert")
  /\ \/ /\ LET url == GmailUrl(MessageKey(Head(loc[p].cands)))
           IN  content_items' = content_items \cup
                 { [id |-> NewItemId("newsletter", loc[p].sourceId, url),
                    sourceId |-> loc[p].sourceId, type |-> "newsletter",
                    url |-> url, content |-> loc[p].detail.text] }
        /\ loc' = [loc EXCEPT ![p].cands = Tail(@), ![p].newItems = @ + 1]
     \/ \E cause \in RejectCauses("newsletter") :
          /\ loc' = [loc EXCEPT ![p].cands = << >>,
                                ![p].insertRejected = cause]
          /\ UNCHANGED content_items
  /\ pc' = [pc EXCEPT ![p] = "m_loop"]
  /\ UNCHANGED <<aside, content_sources, summaries, now, resp, orch, started, cycles,
                 overlap, examined, prevMon>>

\* After the inner try: the update of lastChecked and the success response.
NewsletterMonitor_Update(p) ==
  /\ At(p, "newsletter-agent", "m_loop")
  /\ loc[p].cands = << >>
  /\ content_sources' = TouchSource(loc[p].sourceId, now)
  /\ MonDone(p, MonitorOk(loc[p].newItems))
  /\ UNCHANGED <<aside, content_items, summaries, now, loc, orch, started, cycles, overlap,
                 examined>>

\* A handler that asks for the contentItemId only, the variant against
\* which C28 is tested.
NewsletterSummarize_Load_NoUserTest(p) ==
  /\ At(p, "newsletter-agent", "s_load")
  /\ LET found == SelectItemById(loc[p].contentItemId)
         item == CHOOSE r \in found : TRUE
     IN  IF loc[p].contentItemId = NoItemId
         THEN /\ SumDone(p, Failure("contentItemId is required for summarization"))
              /\ UNCHANGED loc
         ELSE IF found = {}
         THEN /\ SumDone(p, Failure("Content item not found"))
              /\ UNCHANGED loc
         ELSE IF item.content = << >>
         THEN /\ SumDone(p, Failure("No content available for this newsletter"))
              /\ loc' = [loc EXCEPT ![p].item = item]
         ELSE /\ loc' = [loc EXCEPT ![p].item = item,
                                    ![p].transcript = item.content,
                                    ![p].prompt = slice(item.content, 0, ContentCap)]
              /\ pc' = [pc EXCEPT ![p] = "s_oracle"]
              /\ UNCHANGED <<resp, prevMon>>
  /\ UNCHANGED <<aside, store, now, orch, started, cycles, overlap, examined>>

\* handleSummarization, up to the prompt.
NewsletterSummarize_Load(p) ==
  /\ At(p, "newsletter-agent", "s_load")
  /\ LET found == SelectItemById(loc[p].contentItemId)
         item == CHOOSE r \in found : TRUE
     IN  IF loc[p].contentItemId = NoItemId \/ loc[p].userId = NoUser
         THEN /\ SumDone(p, Failure("contentItemId and userId are required for summarization"))
              /\ UNCHANGED loc
         ELSE IF found = {}
         THEN /\ SumDone(p, Failure("Content item not found"))
              /\ UNCHANGED loc
         ELSE IF item.content = << >>
         THEN /\ SumDone(p, Failure("No content available for this newsletter"))
              /\ loc' = [loc EXCEPT ![p].item = item]
         ELSE /\ loc' = [loc EXCEPT ![p].item = item,
                                    ![p].transcript = item.content,
                                    ![p].prompt = slice(item.content, 0, ContentCap)]
              /\ pc' = [pc EXCEPT ![p] = "s_oracle"]
              /\ UNCHANGED <<resp, prevMon>>
  /\ UNCHANGED <<aside, store, now, orch, started, cycles, overlap, examined>>

\* llm.invoke and JSON.parse, and the summary id made from Date.now().
NewsletterSummarize_Oracle(p) ==
  /\ At(p, "newsletter-agent", "s_oracle")
  /\ \E o \in OracleOutcomes, t \in Clock :
       LET res == OracleResult(o)
       IN  IF res.error # ""
           THEN /\ loc' = [loc EXCEPT ![p].oracle = o, ![p].oracleCalls = @ + 1]
                /\ SumDone(p, Failure(res.error))
                /\ UNCHANGED now
           ELSE /\ loc' = [loc EXCEPT ![p].oracle = o, ![p].oracleCalls = @ + 1,
                                      ![p].summaryData = res.data,
                                      ![p].stamp = t]
                /\ now' = t
                /\ pc' = [pc EXCEPT ![p] = "s_insert"]
                /\ UNCHANGED <<resp, prevMon>>
  /\ UNCHANGED <<aside, store, orch, started, cycles, overlap, examined>>

\* The insert into summaries and the success response.
NewsletterSummarize_Insert(p) ==
  /\ At(p, "newsletter-agent", "s_insert")
  /\ LET id == [item |-> loc[p].item.id, t |-> loc[p].stamp]
         d == loc[p].summaryData
         err == SummaryInsertError(id, d)
     IN  IF err # ""
         THEN /\ SumDone(p, Failure(err))
              /\ UNCHANGED summaries
         ELSE /\ summaries' = summaries \cup
                    {SummaryRow(id, loc[p].contentItemId, loc[p].userId, d)}
              /\ SumDone(p, SummaryOk(SummaryData(id, d)))
  /\ UNCHANGED <<aside, content_sources, content_items, now, loc, orch, started, cycles,
                 overlap, examined>>

\* ========================================================= orchestrator
\* The agent a source type is monitored by, the agent a content type is
\* summarized by; "" for a type the switch does not know.
MonitorAgentOf(type) ==
  CASE type = "youtube" -> "youtube-agent"
    [] type = "rss" -> "rss-agent"
    [] type = "newsletter" -> "newsletter-agent"
    [] OTHER -> ""

SummarizeAgentOf(type) ==
  CASE type = "video" -> "youtube-agent"
    [] type = "article" -> "rss-agent"
    [] type = "newsletter" -> "newsletter-agent"
    [] OTHER -> ""

RECURSIVE SelectSeq2(_, _)
SelectSeq2(ids, rows) ==
  IF ids = << >> THEN << >>
  ELSE LET hit == {r \in rows : r.id = Head(ids)}
       IN  (IF hit = {} THEN << >> ELSE <<CHOOSE r \in hit : TRUE>>)
             \o SelectSeq2(Tail(ids), rows)

\* select * from content_sources where is_active = true
ActiveSources ==
  SelectSeq2(SourceOrder, {r \in content_sources : r.isActive})

ResultEntry(source, success, newItems, error) ==
  [sourceId |-> source.id, type |-> source.type, success |-> success,
   newItems |-> newItems, error |-> error]

\* Agent(): the switch of the orchestrator, for monitor and summarize.
Orchestrator(p) ==
  /\ CanStart(p)
  /\ \/ /\ cycles < MaxCycles
        /\ cycles' = cycles + 1
        /\ orch' = [orch EXCEPT ![p] = [NoOrch EXCEPT !.pc = "o_sources",
                                                      !.action = "monitor"]]
     \/ \E cid \in {r.id : r \in content_items} \cup {UnknownItemId, NoItemId},
           uid \in UserIds \cup {NoUser} :
          /\ orch' = [orch EXCEPT ![p] = [NoOrch EXCEPT !.pc = "os_load",
                                                        !.action = "summarize",
                                                        !.sums0 = summaries,
                                                        !.payloadItem = cid,
                                                        !.payloadUser = uid]]
          /\ UNCHANGED cycles
  /\ pc' = [pc EXCEPT ![p] = "idle"]
  /\ loc' = [loc EXCEPT ![p] = IdleLoc]
  /\ resp' = [resp EXCEPT ![p] = NoResp]
  /\ started' = started + 1
  /\ UNCHANGED <<aside, store, now, overlap, examined, prevMon>>

\* handleMonitoring: the select of the active sources.
OrchMonitor_Sources(p) ==
  /\ orch[p].pc = "o_sources"
  /\ orch' = [orch EXCEPT ![p].sources = ActiveSources, ![p].idx = 1,
                          ![p].results = << >>, ![p].pc = "o_loop"]
  /\ UNCHANGED <<aside, store, now, pc, loc, resp, started, cycles, overlap, examined, prevMon>>

\* A loop whose catch is outside it, so that a throw ends the cycle: the
\* variant against which C5 is tested.
OrchMonitor_Dispatch_Abort(p) ==
  /\ orch[p].pc = "o_loop"
  /\ orch[p].idx <= Len(orch[p].sources)
  /\ LET source == orch[p].sources[orch[p].idx]
         agentName == MonitorAgentOf(source.type)
     IN  IF agentName = ""
         THEN /\ orch' = [orch EXCEPT ![p].idx = @ + 1]
              /\ UNCHANGED <<pc, loc, resp>>
         ELSE \/ /\ orch' = [orch EXCEPT ![p].pc = "o_done",
                                          ![p].resp = Failure("agent call failed")]
                 /\ UNCHANGED <<pc, loc, resp>>
              \/ /\ loc' = [loc EXCEPT ![p] =
                              NewLoc(agentName, "monitor", "orch", source.id,
                                     NoItemId, NoUser)]
                 /\ pc' = [pc EXCEPT ![p] = "m_source"]
                 /\ resp' = [resp EXCEPT ![p] = NoResp]
                 /\ orch' = [orch EXCEPT ![p].pc = "o_wait"]
  /\ UNCHANGED <<aside, store, now, started, cycles, overlap, examined, prevMon>>

\* The body of the for loop up to agent.run: a source of unknown type is
\* passed over; ctx.getAgent or agent.run throws and the catch records the
\* failure; or the agent's monitor handler starts.
OrchMonitor_Dispatch(p) ==
  /\ orch[p].pc = "o_loop"
  /\ orch[p].idx <= Len(orch[p].sources)
  /\ LET source == orch[p].sources[orch[p].idx]
         agentName == MonitorAgentOf(source.type)
     IN  IF agentName = ""
         THEN /\ orch' = [orch EXCEPT ![p].idx = @ + 1]
              /\ UNCHANGED <<pc, loc, resp>>
         ELSE \/ /\ orch' = [orch EXCEPT
                      ![p].results = Append(@, ResultEntry(source, FALSE, -1,
                                                           "agent call failed")),
                      ![p].raw = Append(@, Failure("agent call failed")),
                      ![p].idx = @ + 1]
                 /\ UNCHANGED <<pc, loc, resp>>
              \/ /\ loc' = [loc EXCEPT ![p] =
                              NewLoc(agentName, "monitor", "orch", source.id,
                                     NoItemId, NoUser)]
                 /\ pc' = [pc EXCEPT ![p] = "m_source"]
                 /\ resp' = [resp EXCEPT ![p] = NoResp]
                 /\ orch' = [orch EXCEPT ![p].pc = "o_wait"]
  /\ UNCHANGED <<aside, store, now, started, cycles, overlap, examined, prevMon>>

\* A loop that records a source only when its agent reported success, the
\* variant against which C6 is tested.
OrchMonitor_Collect_SuccessOnly(p) ==
  /\ orch[p].pc = "o_wait"
  /\ pc[p] = "done"
  /\ LET source == orch[p].sources[orch[p].idx]
         result == resp[p]
     IN  orch' = [orch EXCEPT
           ![p].results = IF result.success
                          THEN Append(@, ResultEntry(source, TRUE,
                                                     result.newItems, ""))
                          ELSE @,
           ![p].raw = Append(@, result),
           ![p].idx = @ + 1,
           ![p].pc = "o_loop"]
  /\ pc' = [pc EXCEPT ![p] = "idle"]
  /\ UNCHANGED <<aside, store, now, loc, resp, started, cycles, overlap, examined, prevMon>>

\* agent.run returned: response.data.json() yields the agent's result, whose
\* outcome is pushed to results, or it throws and the catch records the
\* failure.
OrchMonitor_Collect(p) ==
  /\ orch[p].pc = "o_wait"
  /\ pc[p] = "done"
  /\ LET source == orch[p].sources[orch[p].idx]
     IN  \E result \in {resp[p], Failure("agent call failed")} :
           orch' = [orch EXCEPT
             ![p].results = Append(@, ResultEntry(source, result.success,
                                     IF result.newItems > 0 THEN result.newItems
                                     ELSE 0,
                                     result.error)),
             ![p].raw = Append(@, result),
             ![p].idx = @ + 1,
             ![p].pc = "o_loop"]
  /\ pc' = [pc EXCEPT ![p] = "idle"]
  /\ UNCHANGED <<aside, store, now, loc, resp, started, cycles, overlap, examined, prevMon>>

\* After the loop: the response with the results of the cycle.
OrchMonitor_Respond(p) ==
  /\ orch[p].pc = "o_loop"
  /\ orch[p].idx > Len(orch[p].sources)
  /\ orch' = [orch EXCEPT ![p].pc = "o_done",
                          ![p].resp = MonitorOk(Len(orch[p].sources))]
  /\ UNCHANGED <<aside, store, now, pc, loc, resp, started, cycles, overlap, examined, prevMon>>

\* handleSummarization up to agent.run: the validation, the select of the
\* content item, the choice of the agent; agent.run throws, or the agent's
\* summarize handler starts with the payload's contentItemId and userId.
OrchSummarize_Load(p) ==
  /\ orch[p].pc = "os_load"
  /\ LET found == SelectItemById(orch[p].payloadItem)
         agentName == SummarizeAgentOf((CHOOSE r \in found : TRUE).type)
         fail(msg) == /\ orch' = [orch EXCEPT ![p].pc = "o_done",
                                              ![p].resp = Failure(msg)]
                      /\ UNCHANGED <<pc, loc, resp>>
     IN  IF orch[p].payloadItem = NoItemId
         THEN fail("contentItemId is required for summarization")
         ELSE IF found = {}
         THEN fail("Content item not found")
         ELSE IF agentName = ""
         THEN fail("Unknown content type")
         ELSE \/ fail("agent call failed")
              \/ /\ loc' = StartSum(p, agentName, "orch", orch[p].payloadItem,
                                    orch[p].payloadUser)
                 /\ pc' = [pc EXCEPT ![p] = "s_load"]
                 /\ resp' = [resp EXCEPT ![p] = NoResp]
                 /\ orch' = [orch EXCEPT ![p].pc = "os_wait",
                                          ![p].runs = @ + 1]
  /\ UNCHANGED <<aside, store, now, started, cycles, overlap, examined, prevMon>>

\* agent.run returned: the agent's result is passed on.
OrchSummarize_Respond(p) ==
  /\ orch[p].pc = "os_wait"
  /\ pc[p] = "done"
  /\ orch' = [orch EXCEPT ![p].pc = "o_done", ![p].resp = resp[p]]
  /\ UNCHANGED <<aside, store, now, pc, loc, resp, started, cycles, overlap, examined, prevMon>>

\* Agent() of any of the four agents returns the response its handler
\* made to the client that sent the request.
Return(p) ==
  /\ \/ pc[p] = "done" /\ loc[p].caller = "client" /\ orch[p].pc = "none"
     \/ orch[p].pc = "o_done"
  /\ pc' = [pc EXCEPT ![p] = "idle"]
  /\ loc' = [loc EXCEPT ![p] = IdleLoc]
  /\ resp' = [resp EXCEPT ![p] = NoResp]
  /\ orch' = [orch EXCEPT ![p] = NoOrch]
  /\ UNCHANGED <<aside, store, now, started, cycles, overlap, examined, prevMon>>

\* ======================================================== specification
Next ==
  \E p \in Procs :
    \/ RssAgent(p)
    \/ RssMonitor_Source(p)
    \/ RssMonitor_Fetch(p)
    \/ RssMonitor_Check(p)
    \/ RssMonitor_Insert(p)
    \/ RssMonitor_Update(p)
    \/ RssSummarize_Load(p)
    \/ RssSummarize_Oracle(p)
    \/ RssSummarize_Insert(p)
    \/ YouTubeAgent(p)
    \/ YouTubeMonitor_Source(p)
    \/ YouTubeMonitor_Fetch(p)
    \/ YouTubeMonitor_Loop(p)
    \/ YouTubeSummarize_Load(p)
    \/ YouTubeSummarize_Transcript(p)
    \/ YouTubeSummarize_Oracle(p)
    \/ YouTubeSummarize_Insert(p)
    \/ NewsletterAgent(p)
    \/ NewsletterMonitor_Source(p)
    \/ NewsletterMonitor_Fetch(p)
    \/ NewsletterMonitor_Check(p)
    \/ NewsletterMonitor_Detail(p)
    \/ NewsletterMonitor_Insert(p)
    \/ NewsletterMonitor_Update(p)
    \/ NewsletterSummarize_Load(p)
    \/ NewsletterSummarize_Oracle(p)
    \/ NewsletterSummarize_Insert(p)
    \/ Orchestrator(p)
    \/ OrchMonitor_Sources(p)
    \/ OrchMonitor_Dispatch(p)
    \/ OrchMonitor_Collect(p)
    \/ OrchMonitor_Respond(p)
    \/ OrchSummarize_Load(p)
    \/ OrchSummarize_Respond(p)
    \/ Return(p)

\* Requests arrive one after the other.
Spec == Init /\ [][Next]_vars

\* Client requests to the agents and summarize requests to the orchestrator,
\* where a second request may arrive while the first is in progress.  The
\* service has completed one request before: a monitor run of the RSS
\* source s1 whose feed held the article a1.
FirstFeed == <<CHOOSE i \in RssItems : i.link = WebUrl("a1")>>

InitConc ==
  /\ content_sources = {IF r.id = "s1" THEN [r EXCEPT !.lastChecked = 0] ELSE r
                          : r \in InitSources}
  /\ content_items =
       { [id |-> [kind |-> "article", src |-> "s1", loc |-> WebUrl("a1"),
                  n |-> 0],
          sourceId |-> "s1", type |-> "article", url |-> WebUrl("a1"),
          content |-> extractContent(FirstFeed[1])] }
  /\ summaries = {}
  /\ now = 0
  /\ pc = [p \in Procs |-> "idle"]
  /\ loc = [p \in Procs |-> IdleLoc]
  /\ resp = [p \in Procs |-> NoResp]
  /\ orch = [p \in Procs |-> NoOrch]
  /\ started = 1
  /\ cycles = MaxCycles
  /\ overlap = TRUE
  /\ examined = {<<"s1", WebUrl("a1")>>}
  /\ prevMon = [sourceId |-> "s1", ok |-> TRUE, fetched |-> FirstFeed]
  /\ AsideIdle

NextConc ==
  \E p \in Procs :
    \/ RssAgent(p)
    \/ RssMonitor_Source(p)
    \/ RssMonitor_Fetch(p)
    \/ RssMonitor_Check(p)
    \/ RssMonitor_Insert(p)
    \/ RssMonitor_Update(p)
    \/ RssSummarize_Load(p)
    \/ RssSummarize_Oracle(p)
    \/ RssSummarize_Insert(p)
    \/ YouTubeAgent(p)
    \/ YouTubeMonitor_Source(p)
    \/ YouTubeMonitor_Fetch(p)
    \/ YouTubeMonitor_Loop(p)
    \/ YouTubeSummarize_Load(p)
    \/ YouTubeSummarize_Transcript(p)
    \/ YouTubeSummarize_Oracle(p)
    \/ YouTubeSummarize_Insert(p)
    \/ NewsletterAgent(p)
    \/ NewsletterMonitor_Source(p)
    \/ NewsletterMonitor_Fetch(p)
    \/ NewsletterMonitor_Check(p)
    \/ NewsletterMonitor_Detail(p)
    \/ NewsletterMonitor_Insert(p)
    \/ NewsletterMonitor_Update(p)
    \/ NewsletterSummarize_Load(p)
    \/ NewsletterSummarize_Oracle(p)
    \/ NewsletterSummarize_Insert(p)
    \/ Orchestrator(p)
    \/ OrchSummarize_Load(p)
    \/ OrchSummarize_Respond(p)
    \/ Return(p)

SpecConc == InitConc /\ [][NextConc]_vars

\* Client requests to the agents and summarize requests to the orchestrator
\* arrive one after the other, and the store may reject the insert of a
\* content item.
InitFault ==
  /\ content_sources = InitSources
  /\ content_items = {}
  /\ summaries = {}
  /\ now = 0
  /\ pc = [p \in Procs |-> "idle"]
  /\ loc = [p \in Procs |-> IdleLoc]
  /\ resp = [p \in Procs |-> NoResp]
  /\ orch = [p \in Procs |-> NoOrch]
  /\ started = 0
  /\ cycles = MaxCycles
  /\ overlap = FALSE
  /\ examined = {}
  /\ prevMon = NoMon
  /\ faults = TRUE
  /\ config = NoEnv
  /\ storage_locations = {}
  /\ fan = NoFan
  /\ input = NoInput
  /\ output = NoOutput

SpecFault == InitFault /\ [][NextConc]_vars

\* ------------------------------------------------ truncation, on its own
\* Texts around the cap: every length from ContentCap - TruncMargin to
\* ContentCap + TruncMargin, in two patterns whose characters depend on
\* their position.
Alphabet == <<"a", "b", "c", "d", "e">>
TextPatterns == {1, 2}
LongText(n, k) == [i \in 1..n |-> Alphabet[((i * k) % Len(Alphabet)) + 1]]
TextLengths == (ContentCap - TruncMargin)..(ContentCap + TruncMargin)

SummarizeAgents == {"rss-agent", "youtube-agent", "newsletter-agent"}

\* A summarize request has just been accepted by one of the agents, for an
\* article of source s1 whose stored content is a text around the cap.
InitSlice ==
  \E n \in TextLengths, k \in TextPatterns, agent \in SummarizeAgents :
    LET id == [kind |-> "article", src |-> "s1", loc |-> WebUrl("a1"), n |-> 0]
        row == [id |-> id, sourceId |-> "s1", type |-> "article",
                url |-> WebUrl("a1"), content |-> LongText(n, k)]
    IN  /\ content_sources = {IF r.id = "s1" THEN [r EXCEPT !.lastChecked = 0]
                                ELSE r : r \in InitSources}
        /\ content_items = {row}
        /\ summaries = {}
        /\ now = 0
        /\ pc = [p \in Procs |-> IF p = 1 THEN "s_load" ELSE "idle"]
        /\ loc = [p \in Procs |->
                    IF p = 1
                    THEN [IdleLoc EXCEPT !.agent = agent, !.action = "summarize",
                                         !.caller = "client",
                                         !.contentItemId = id,
                                         !.userId = "user1",
                                         !.items0 = {row}]
                    ELSE IdleLoc]
        /\ resp = [p \in Procs |-> NoResp]
        /\ orch = [p \in Procs |-> NoOrch]
        /\ started = 2
        /\ cycles = MaxCycles
        /\ overlap = FALSE
        /\ examined = {<<"s1", WebUrl("a1")>>}
        /\ prevMon = NoMon
        /\ AsideIdle

NextSlice ==
  \E p \in Procs :
    \/ RssSummarize_Load(p)
    \/ YouTubeSummarize_Load(p)
    \/ NewsletterSummarize_Load(p)

SpecSlice == InitSlice /\ [][NextSlice]_vars

\* ====================================================== storage fan-out
\* The keys of StorageManager.providers, and the names a caller may pass.
Providers == {"notion", "google_docs"}
ProviderNames == Providers \cup {"dropbox"}

\* isConfigured() of a provider: its credentials were in process.env when
\* the manager was constructed.
isConfigured(provider) == config[provider]

\* The StorageLocation createDocument builds for the document ext that the
\* provider created.
StorageLocation(provider, summaryId, ext, t) ==
  [id |-> [provider |-> provider, ext |-> ext, t |-> t],
   summaryId |-> summaryId, provider |-> provider, externalId |-> ext]

\* upsertStorageLocationSB: with the mirror enabled the row is upserted on
\* its id, otherwise nothing is written.
upsertStorageLocationSB(row) ==
  IF config.supabase
  THEN {r \in storage_locations : r.id # row.id} \cup {row}
  ELSE storage_locations

\* storeSummaryMultiple(providers, summary) is called for a persisted
\* summary.
StoreSummaryMultiple ==
  /\ fan.pc = "none"
  /\ fan.calls < MaxReplicates
  /\ \E providers \in SeqsUpTo(ProviderNames, MaxProviders), summary \in summaries :
       fan' = [NoFan EXCEPT !.pc = "loop", !.providers = providers, !.idx = 1,
                            !.summaryId = summary.id, !.sums0 = summaries,
                            !.calls = fan.calls + 1, !.docs = fan.docs]
  /\ UNCHANGED <<store, now, pc, loc, resp, orch, started, cycles, overlap,
                 examined, prevMon, faults, config, storage_locations, input,
                 output>>

\* A loop that is left at the first provider that fails, the variant
\* against which C21 is tested.
StoreSummary_BreakOnFailure ==
  /\ fan.pc = "loop"
  /\ fan.idx <= Len(fan.providers)
  /\ LET provider == fan.providers[fan.idx]
         failed(msg) ==
           /\ fan' = [fan EXCEPT !.errors = Append(@, <<provider, msg>>),
                                 !.outcomes = Append(@, "failed"),
                                 !.idx = Len(fan.providers) + 1]
           /\ UNCHANGED storage_locations
         location == StorageLocation(provider, fan.summaryId, fan.docs + 1, now)
     IN  IF provider \notin Providers
         THEN failed("Storage provider not found")
         ELSE IF ~isConfigured(provider)
         THEN failed("Storage provider is not configured")
         ELSE \/ failed("Failed to create document")
              \/ /\ fan' = [fan EXCEPT !.results = Append(@, location),
                                        !.outcomes = Append(@, "stored"),
                                        !.docs = @ + 1,
                                        !.idx = @ + 1]
                 /\ storage_locations' = upsertStorageLocationSB(location)
  /\ UNCHANGED <<store, now, pc, loc, resp, orch, started, cycles, overlap,
                 examined, prevMon, faults, config, input, output>>

\* One turn of the loop: storeSummary throws for a provider the manager
\* does not hold or that is not configured; createDocument throws, or it
\* creates the document, upserts the location and returns it.
StoreSummary ==
  /\ fan.pc = "loop"
  /\ fan.idx <= Len(fan.providers)
  /\ LET provider == fan.providers[fan.idx]
         failed(msg) ==
           /\ fan' = [fan EXCEPT !.errors = Append(@, <<provider, msg>>),
                                 !.outcomes = Append(@, "failed"),
                                 !.idx = @ + 1]
           /\ UNCHANGED storage_locations
         location == StorageLocation(provider, fan.summaryId, fan.docs + 1, now)
     IN  IF provider \notin Providers
         THEN failed("Storage provider not found")
         ELSE IF ~isConfigured(provider)
         THEN failed("Storage provider is not configured")
         ELSE \/ failed("Failed to create document")
              \/ /\ fan' = [fan EXCEPT !.results = Append(@, location),
                                        !.outcomes = Append(@, "stored"),
                                        !.docs = @ + 1,
                                        !.idx = @ + 1]
                 /\ storage_locations' = upsertStorageLocationSB(location)
  /\ UNCHANGED <<store, now, pc, loc, resp, orch, started, cycles, overlap,
                 examined, prevMon, faults, config, input, output>>

\* An end that throws as soon as one provider failed, the variant against
\* which C11 is tested.
StoreReturn_AllOrNothing ==
  /\ fan.pc = "loop"
  /\ fan.idx > Len(fan.providers)
  /\ fan' = IF Len(fan.results) = 0 \/ Len(fan.errors) > 0
            THEN [fan EXCEPT !.pc = "done", !.returned = "throw"]
            ELSE [fan EXCEPT !.pc = "done", !.returned = "return",
                             !.value = fan.results]
  /\ UNCHANGED <<store, now, pc, loc, resp, orch, started, cycles, overlap,
                 examined, prevMon, faults, config, storage_locations, input,
                 output>>

\* The end of storeSummaryMultiple: it throws when results is empty and
\* returns results otherwise.
StoreReturn ==
  /\ fan.pc = "loop"
  /\ fan.idx > Len(fan.providers)
  /\ fan' = IF Len(fan.results) = 0
            THEN [fan EXCEPT !.pc = "done", !.returned = "throw"]
            ELSE [fan EXCEPT !.pc = "done", !.returned = "return",
                             !.value = fan.results]
  /\ UNCHANGED <<store, now, pc, loc, resp, orch, started, cycles, overlap,
                 examined, prevMon, faults, config, storage_locations, input,
                 output>>

\* The caller has taken the result; the manager is free for the next call.
StoreEnd ==
  /\ fan.pc = "done"
  /\ fan' = [NoFan EXCEPT !.calls = fan.calls, !.docs = fan.docs]
  /\ UNCHANGED <<store, now, pc, loc, resp, orch, started, cycles, overlap,
                 examined, prevMon, faults, config, storage_locations, input,
                 output>>

\* The environments a deployment can have.
Envs == [notion : BOOLEAN, google_docs : BOOLEAN, supabase : BOOLEAN]

\* The service has ingested the article a1 of source s1 and summarized it
\* once; the storage manager has just been constructed.
InitStore ==
  \E env \in Envs :
    LET id == [kind |-> "article", src |-> "s1", loc |-> WebUrl("a1"), n |-> 0]
        row == [id |-> id, sourceId |-> "s1", type |-> "article",
                url |-> WebUrl("a1"), content |-> extractContent(FirstFeed[1])]
    IN  /\ content_sources = {IF r.id = "s1" THEN [r EXCEPT !.lastChecked = 0]
                                ELSE r : r \in InitSources}
        /\ content_items = {row}
        /\ summaries = {SummaryRow([item |-> id, t |-> 0], id, "user1",
                                   Json("S1", "K1", "T1", "positive", "85"))}
        /\ now = 0
        /\ pc = [p \in Procs |-> "idle"]
        /\ loc = [p \in Procs |-> IdleLoc]
        /\ resp = [p \in Procs |-> NoResp]
        /\ orch = [p \in Procs |-> NoOrch]
        /\ started = 2
        /\ cycles = MaxCycles
        /\ overlap = FALSE
        /\ examined = {<<"s1", WebUrl("a1")>>}
        /\ prevMon = [sourceId |-> "s1", ok |-> TRUE, fetched |-> FirstFeed]
        /\ faults = FALSE
        /\ config = env
        /\ storage_locations = {}
        /\ fan = NoFan
        /\ input = NoInput
        /\ output = NoOutput

NextStore ==
  \/ StoreSummaryMultiple
  \/ StoreSummary
  \/ StoreReturn
  \/ StoreEnd

SpecStore == InitStore /\ [][NextStore]_vars

\* ------------------------------------------------ parseDuration, on its own
Digits == <<"0", "1", "2", "3", "4", "5", "6", "7", "8", "9">>
IsDigit(c) == \E i \in 1..Len(Digits) : Digits[i] = c
DigitVal(c) == (CHOOSE i \in 1..Len(Digits) : Digits[i] = c) - 1

RECURSIVE parseInt(_)
\* parseInt of a string of decimal digits.
parseInt(ds) ==
  IF ds = << >> THEN 0
  ELSE 10 * parseInt(SubSeq(ds, 1, Len(ds) - 1)) + DigitVal(ds[Len(ds)])

\* The number of digits s starts with: what \d+ takes, being greedy.
RECURSIVE DigitRun(_)
DigitRun(s) ==
  IF s # << >> /\ IsDigit(Head(s)) THEN 1 + DigitRun(Tail(s)) ELSE 0

\* (?:(\d+)X)? at the head of s: the group matches when at least one digit
\* is followed by the letter, and is passed over otherwise.  capture is
\* the captured digits, '0' standing in for a group that did not match;
\* rest is what follows the group.
OptGroup(s, letter) ==
  LET n == DigitRun(s)
  IN  IF n > 0 /\ Len(s) > n /\ s[n + 1] = letter
      THEN [capture |-> SubSeq(s, 1, n), rest |-> SubSeq(s, n + 2, Len(s))]
      ELSE [capture |-> <<"0">>, rest |-> s]

\* duration.match(/PT(?:(\d+)H)?(?:(\d+)M)?(?:(\d+)S)?/): the pattern is
\* not anchored, the match starts at the leftmost "PT" of the string.
parseDuration(duration) ==
  LET starts == {i \in 1..(Len(duration) - 1) :
                   duration[i] = "P" /\ duration[i + 1] = "T"}
  IN  IF starts = {} THEN 0
      ELSE LET first == CHOOSE i \in starts : \A j \in starts : i <= j
               h == OptGroup(SubSeq(duration, first + 2, Len(duration)), "H")
               m == OptGroup(h.rest, "M")
               sec == OptGroup(m.rest, "S")
               hours == parseInt(h.capture)
               minutes == parseInt(m.capture)
               seconds == parseInt(sec.capture)
           IN  hours * 3600 + minutes * 60 + seconds

\* The strings parseDuration is evaluated on: every string of up to
\* MaxDurLen characters over a small alphabet, and the durations
\* PT[nH][nM][nS] over a few numbers, bare and with a character before or
\* after them.
DurAlphabet == {"P", "T", "1", "S", "M", "x"}
DurNumbers == {<<"1">>, <<"2">>, <<"3">>, <<"4", "5">>, <<"0", "7">>}
DurPart(letter) == {<< >>} \cup {n \o <<letter>> : n \in DurNumbers}
Durations ==
  {<<"P", "T">> \o h \o m \o sec :
     h \in DurPart("H"), m \in DurPart("M"), sec \in DurPart("S")}
DurationInputs ==
  SeqsUpTo(DurAlphabet, MaxDurLen) \cup Durations
    \cup {<<"x">> \o d : d \in Durations} \cup {d \o <<"x">> : d \in Durations}
    \cup {<<"P", "T", "1", "M", "2", "H">>, <<"P", "1", "D", "T", "2", "H">>}

\* parseDuration is about to be called on one of the strings.
InitDuration ==
  /\ content_sources = InitSources
  /\ content_items = {}
  /\ summaries = {}
  /\ now = 0
  /\ pc = [p \in Procs |-> "idle"]
  /\ loc = [p \in Procs |-> IdleLoc]
  /\ resp = [p \in Procs |-> NoResp]
  /\ orch = [p \in Procs |-> NoOrch]
  /\ started = 0
  /\ cycles = 0
  /\ overlap = FALSE
  /\ examined = {}
  /\ prevMon = NoMon
  /\ faults = FALSE
  /\ config = NoEnv
  /\ storage_locations = {}
  /\ fan = NoFan
  /\ input \in {[NoInput EXCEPT !.fn = "parseDuration", !.text = t] : t \in DurationInputs}
  /\ output = NoOutput

\* The call of parseDuration.
ParseDuration ==
  /\ input.fn = "parseDuration"
  /\ ~output.done
  /\ output' = [NoOutput EXCEPT !.done = TRUE,
                                !.seconds = parseDuration(input.text)]
  /\ UNCHANGED <<store, now, pc, loc, resp, orch, started, cycles, overlap,
                 examined, prevMon, faults, config, storage_locations, fan,
                 input>>

SpecDuration == InitDuration /\ [][ParseDuration]_vars

\* ------------------------------------------- calculateConfidence, on its own
\* query.split(' '): the parts of the text between its blanks, empty parts
\* included; the empty text has one part, the empty one.
RECURSIVE SplitFrom(_, _, _)
SplitFrom(text, i, part) ==
  IF i > Len(text) THEN <<part>>
  ELSE IF text[i] = " " THEN <<part>> \o SplitFrom(text, i + 1, << >>)
  ELSE SplitFrom(text, i + 1, Append(part, text[i]))
split(text) == SplitFrom(text, 1, << >>)

\* The calculation without its last Math.min, the variant against which
\* C30 is tested.
calculateConfidence_Uncapped(resultsCount, query) ==
  LET baseConfidence == Min(resultsCount * 20, 80)
      queryComplexity == Len(split(query))
      complexityBonus == Min(queryComplexity * 2, 20)
  IN  baseConfidence + complexityBonus

\* calculateConfidence of the interaction agent.
calculateConfidence(resultsCount, query) ==
  LET baseConfidence == Min(resultsCount * 20, 80)
      queryComplexity == Len(split(query))
      complexityBonus == Min(queryComplexity * 2, 20)
  IN  Min(baseConfidence + complexityBonus, 95)

\* InteractionService.calculateConfidence, the method of the service.
InteractionService_calculateConfidence(resultsCount, query) ==
  LET baseConfidence == Min(resultsCount * 20, 80)
      queryComplexity == Len(split(query))
      complexityBonus == Min(queryComplexity * 2, 20)
  IN  Min(baseConfidence + complexityBonus, 95)

ConfidenceFns ==
  {"calculateConfidence", "InteractionService.calculateConfidence"}
ConfidenceOf(fn, resultsCount, query) ==
  IF fn = "calculateConfidence"
  THEN calculateConfidence(resultsCount, query)
  ELSE InteractionService_calculateConfidence(resultsCount, query)

\* The calls under evaluation: relevantSummaries.length, a number from 0
\* to MaxResults, and a query of up to MaxQueryLen letters and blanks.
QueryAlphabet == {"a", " "}
Queries == SeqsUpTo(QueryAlphabet, MaxQueryLen)
ResultCounts == 0..MaxResults

\* One of the two functions is about to be called.
InitConfidence ==
  /\ content_sources = InitSources
  /\ content_items = {}
  /\ summaries = {}
  /\ now = 0
  /\ pc = [p \in Procs |-> "idle"]
  /\ loc = [p \in Procs |-> IdleLoc]
  /\ resp = [p \in Procs |-> NoResp]
  /\ orch = [p \in Procs |-> NoOrch]
  /\ started = 0
  /\ cycles = 0
  /\ overlap = FALSE
  /\ examined = {}
  /\ prevMon = NoMon
  /\ faults = FALSE
  /\ config = NoEnv
  /\ storage_locations = {}
  /\ fan = NoFan
  /\ input \in {[NoInput EXCEPT !.fn = f, !.count = n, !.text = q] :
                  f \in ConfidenceFns, n \in ResultCounts, q \in Queries}
  /\ output = NoOutput

\* The call.
CalculateConfidence ==
  /\ input.fn \in ConfidenceFns
  /\ ~output.done
  /\ output' = [NoOutput EXCEPT
                  !.done = TRUE,
                  !.confidence = ConfidenceOf(input.fn, input.count,
                                              input.text)]
  /\ UNCHANGED <<store, now, pc, loc, resp, orch, started, cycles, overlap,
                 examined, prevMon, faults, config, storage_locations, fan,
                 input>>

SpecConfidence == InitConfidence /\ [][CalculateConfidence]_vars

\* --------------------------------------------- YouTube agent, remove_source
\* Agent(): the switch of the YouTube agent, for remove_source.
YouTubeAgent_RemoveSource(p) ==
  /\ CanStart(p)
  /\ \E sid \in SourceIds \cup {NoSource} :
       loc' = [loc EXCEPT ![p] =
                 NewLoc("youtube-agent", "remove_source", "client", sid,
                        NoItemId, NoUser)]
  /\ pc' = [pc EXCEPT ![p] = "r_remove"]
  /\ resp' = [resp EXCEPT ![p] = NoResp]
  /\ orch' = [orch EXCEPT ![p] = NoOrch]
  /\ started' = started + 1
  /\ UNCHANGED <<aside, store, now, cycles, overlap, examined, prevMon>>

\* The success response of remove_source.
RemoveOk == [NoResp EXCEPT !.set = TRUE, !.success = TRUE]

\* A handler that also deletes the items of the source and their
\* summaries, the variant against which C29 is tested.
handleRemoveSource_Cascade(p) ==
  /\ At(p, "youtube-agent", "r_remove")
  /\ IF loc[p].sourceId = NoSource
     THEN /\ resp' = [resp EXCEPT ![p] = Failure("sourceId is required")]
          /\ UNCHANGED <<content_sources, content_items, summaries>>
     ELSE /\ content_sources' =
               {r \in content_sources : r.id # loc[p].sourceId}
          /\ content_items' =
               {r \in content_items : r.sourceId # loc[p].sourceId}
          /\ summaries' =
               {r \in summaries :
                  \E i \in content_items' : i.id = r.contentItemId}
          /\ resp' = [resp EXCEPT ![p] = RemoveOk]
  /\ pc' = [pc EXCEPT ![p] = "done"]
  /\ UNCHANGED <<aside, now, loc, orch, started, cycles, overlap, examined,
                 prevMon>>

\* handleRemoveSource: the delete of the content_sources row with the
\* given id, of whatever type, and the response.
handleRemoveSource(p) ==
  /\ At(p, "youtube-agent", "r_remove")
  /\ IF loc[p].sourceId = NoSource
     THEN /\ resp' = [resp EXCEPT ![p] = Failure("sourceId is required")]
          /\ UNCHANGED content_sources
     ELSE /\ content_sources' =
               {r \in content_sources : r.id # loc[p].sourceId}
          /\ resp' = [resp EXCEPT ![p] = RemoveOk]
  /\ pc' = [pc EXCEPT ![p] = "done"]
  /\ UNCHANGED <<aside, content_items, summaries, now, loc, orch, started,
                 cycles, overlap, examined, prevMon>>

\* Clients send requests to the RSS agent and remove_source requests to
\* the YouTube agent, one after the other.
NextRemove ==
  \E p \in Procs :
    \/ RssAgent(p)
    \/ RssMonitor_Source(p)
    \/ RssMonitor_Fetch(p)
    \/ RssMonitor_Check(p)
    \/ RssMonitor_Insert(p)
    \/ RssMonitor_Update(p)
    \/ RssSummarize_Load(p)
    \/ RssSummarize_Oracle(p)
    \/ RssSummarize_Insert(p)
    \/ YouTubeAgent_RemoveSource(p)
    \/ handleRemoveSource(p)
    \/ Return(p)

SpecRemove == Init /\ [][NextRemove]_vars

\* ------------------------------------- newsletter monitor, a large mailbox
\* A mailbox of eleven messages of the last seven days, newest first, and
\* the same mailbox after one more message arrived.
MailboxIds == <<"k1", "k2", "k3", "k4", "k5", "k6", "k7", "k8", "k9", "k10",
                "k11">>

Mailbox == [i \in DOMAIN MailboxIds |-> Msg(MailboxIds[i], NoId, NoId)]

LongLists == {Mailbox, <<Msg("k0", NoId, NoId)>> \o Mailbox}

\* The inner try up to the loop, for the listings of the large mailbox.
NewsletterMonitor_FetchLong(p) == NewsletterMonitor_FetchFrom(p, LongLists)

\* The deployment's tool list has a list tool and no get tool.
NewsletterMonitor_SourceCap(p) ==
  NewsletterMonitor_SourceWith(p, {"list"})

\* A monitor request for the newsletter source s2.
NewsletterAgent_Cap(p) == NewsletterAgent_For(p, {"s2"}, {})

\* Clients send monitor requests for the source s2 to the newsletter
\* agent, one after the other.
NextCap ==
  \E p \in Procs :
    \/ NewsletterAgent_Cap(p)
    \/ NewsletterMonitor_SourceCap(p)
    \/ NewsletterMonitor_FetchLong(p)
    \/ NewsletterMonitor_Check(p)
    \/ NewsletterMonitor_Insert(p)
    \/ NewsletterMonitor_Update(p)
    \/ Return(p)

SpecCap == Init /\ [][NextCap]_vars

\* ------------------------------------------- newsletter agent, process_email
\* An email is the sequence of its lines (the parts between the newlines);
\* a line is the header name it starts with, if any, and the rest of it.
Line(head, rest) == [head |-> head, rest |-> rest]

EmptyLine == Line("", << >>)

EmailLines ==
  { Line("Subject:", <<"N">>), Line("Date:", <<"d">>), EmptyLine,
    Line("", <<"b">>) }

\* request.emailContent: the field is missing, or it is a string, the
\* empty string being the one empty line.
NoEmail == << >>
EmailContents == SeqsUpTo(EmailLines, MaxLines)

\* The characters of a line.
LineText(l) ==
  (IF l.head = "" THEN << >> ELSE <<l.head>>) \o l.rest

RECURSIVE ParseLines(_, _)
\* The for loop of parseEmailContent over the lines.
ParseLines(lines, acc) ==
  IF lines = << >> THEN acc
  ELSE LET line == Head(lines)
           next ==
             IF line.head = "Subject:" THEN [acc EXCEPT !.subject = trim(line.rest)]
             ELSE IF line.head = "From:" THEN [acc EXCEPT !.from = trim(line.rest)]
             ELSE IF line.head = "Date:" THEN [acc EXCEPT !.date = trim(line.rest)]
             ELSE IF trim(LineText(line)) = << >> /\ ~acc.inBody
             THEN [acc EXCEPT !.inBody = TRUE]
             ELSE IF acc.inBody
             THEN [acc EXCEPT !.textContent = @ \o LineText(line) \o <<"\n">>]
             ELSE acc
       IN  ParseLines(Tail(lines), next)

\* parseEmailContent: the headers, with their defaults, and the trimmed
\* body.
parseEmailContent(emailContent) ==
  LET acc == ParseLines(emailContent,
                        [subject |-> << >>, from |-> << >>, date |-> << >>,
                         textContent |-> << >>, inBody |-> FALSE])
  IN  [subject |-> IF acc.subject = << >> THEN <<"Untitled Newsletter">>
                   ELSE acc.subject,
       from |-> IF acc.from = << >> THEN <<"Unknown Sender">> ELSE acc.from,
       date |-> IF acc.date = << >> THEN <<"now">> ELSE acc.date,
       textContent |-> trim(acc.textContent)]

\* The success response of process_email.
ProcessOk == [NoResp EXCEPT !.set = TRUE, !.success = TRUE]

\* Agent(): the switch of the newsletter agent, for process_email.
NewsletterAgent_ProcessEmail(p) ==
  /\ CanStart(p)
  /\ \E sid \in {"s2", "s1", NoSource}, email \in EmailContents :
       loc' = [loc EXCEPT ![p] =
                 [NewLoc("newsletter-agent", "process_email", "client", sid,
                         NoItemId, NoUser) EXCEPT !.emailContent = email]]
  /\ pc' = [pc EXCEPT ![p] = "e_process"]
  /\ resp' = [resp EXCEPT ![p] = NoResp]
  /\ orch' = [orch EXCEPT ![p] = NoOrch]
  /\ started' = started + 1
  /\ UNCHANGED <<aside, store, now, cycles, overlap, examined, prevMon>>

\* A handler that looks for an item of the source with the same text
\* before it inserts, the variant against which C26 is tested.
handleEmailProcessing_Dedupe(p) ==
  /\ At(p, "newsletter-agent", "e_process")
  /\ LET emailData == parseEmailContent(loc[p].emailContent)
         row == [id |-> NewItemId("newsletter", loc[p].sourceId, NoLink),
                 sourceId |-> loc[p].sourceId, type |-> "newsletter",
                 url |-> NoLink, content |-> emailData.textContent]
     IN  IF loc[p].emailContent \in {NoEmail, <<EmptyLine>>}
            \/ loc[p].sourceId = NoSource
         THEN /\ resp' = [resp EXCEPT ![p] =
                 Failure("emailContent and sourceId are required for email processing")]
              /\ UNCHANGED content_items
         ELSE /\ content_items' =
                   IF \E r \in content_items :
                        r.sourceId = row.sourceId /\ r.content = row.content
                   THEN content_items ELSE content_items \cup {row}
              /\ resp' = [resp EXCEPT ![p] = ProcessOk]
  /\ pc' = [pc EXCEPT ![p] = "done"]
  /\ UNCHANGED <<aside, content_sources, summaries, now, loc, orch, started,
                 cycles, overlap, examined, prevMon>>

\* handleEmailProcessing: the validation, parseEmailContent, the insert of
\* the item (no url is given, the column stays NULL) and the response.
handleEmailProcessing(p) ==
  /\ At(p, "newsletter-agent", "e_process")
  /\ LET emailData == parseEmailContent(loc[p].emailContent)
         row == [id |-> NewItemId("newsletter", loc[p].sourceId, NoLink),
                 sourceId |-> loc[p].sourceId, type |-> "newsletter",
                 url |-> NoLink, content |-> emailData.textContent]
     IN  IF loc[p].emailContent \in {NoEmail, <<EmptyLine>>}
            \/ loc[p].sourceId = NoSource
         THEN /\ resp' = [resp EXCEPT ![p] =
                 Failure("emailContent and sourceId are required for email processing")]
              /\ UNCHANGED content_items
         ELSE /\ content_items' = content_items \cup {row}
              /\ resp' = [resp EXCEPT ![p] = ProcessOk]
  /\ pc' = [pc EXCEPT ![p] = "done"]
  /\ UNCHANGED <<aside, content_sources, summaries, now, loc, orch, started,
                 cycles, overlap, examined, prevMon>>

\* Clients send process_email requests, one after the other.
NextEmail ==
  \E p \in Procs :
    \/ NewsletterAgent_ProcessEmail(p)
    \/ handleEmailProcessing(p)
    \/ Return(p)

SpecEmail == Init /\ [][NextEmail]_vars

\* ----------------------------------------------- extractContent, on its own
\* What a field of a feed item can hold: it is absent, empty, plain text,
\* text in tags, or tags and blanks only.
FieldValues ==
  { Absent, << >>, <<"a">>, <<"<", "p", ">", "b", "<", "/", "p", ">">>,
    <<"<", "p", ">", " ", "<", "/", "p", ">">> }

ExtractInputs ==
  { RssItem(WebUrl("a1"), enc, con, des, sum, snip) :
      enc \in FieldValues, con \in FieldValues, des \in FieldValues,
      sum \in FieldValues, snip \in FieldValues }

\* extractContent is about to be called on one of the items.
InitExtract ==
  /\ content_sources = InitSources
  /\ content_items = {}
  /\ summaries = {}
  /\ now = 0
  /\ pc = [p \in Procs |-> "idle"]
  /\ loc = [p \in Procs |-> IdleLoc]
  /\ resp = [p \in Procs |-> NoResp]
  /\ orch = [p \in Procs |-> NoOrch]
  /\ started = 0
  /\ cycles = 0
  /\ overlap = FALSE
  /\ examined = {}
  /\ prevMon = NoMon
  /\ faults = FALSE
  /\ config = NoEnv
  /\ storage_locations = {}
  /\ fan = NoFan
  /\ input \in {[NoInput EXCEPT !.fn = "extractContent", !.item = i]
                  : i \in ExtractInputs}
  /\ output = NoOutput

\* The call of extractContent.
ExtractContent ==
  /\ input.fn = "extractContent"
  /\ ~output.done
  /\ output' = [NoOutput EXCEPT !.done = TRUE,
                                !.text = extractContent(input.item)]
  /\ UNCHANGED <<store, now, pc, loc, resp, orch, started, cycles, overlap,
                 examined, prevMon, faults, config, storage_locations, fan,
                 input>>

SpecExtract == InitExtract /\ [][ExtractContent]_vars

\* ---------------------------------------------------- stripHtml, on its own
Amp == <<"&", "a", "m", "p", ";">>
Lt == <<"&", "l", "t", ";">>
Gt == <<"&", "g", "t", ";">>
Nbsp == <<"&", "n", "b", "s", "p", ";">>
Quot == <<"&", "q", "u", "o", "t", ";">>

\* The pieces the HTML texts are made of: letters, a blank, the five
\* entities, the tail of an entity, tags and lone angle brackets.
HtmlTokens ==
  { <<"a">>, <<" ">>, <<"&">>, Amp, Lt, Gt, Nbsp, Quot, <<"l", "t", ";">>,
    <<"<", "p", ">">>, <<"<", "/", "p", ">">>, <<"<">>, <<">">> }

RECURSIVE Concat(_)
Concat(ts) == IF ts = << >> THEN << >> ELSE Head(ts) \o Concat(Tail(ts))

HelloHtml ==
  <<"<", "p", ">", "H", "e", "l", "l", "o", " ">> \o Amp
    \o <<" ", "w", "e", "l", "c", "o", "m", "e", "<", "/", "p", ">">>

HtmlInputs ==
  {Concat(ts) : ts \in SeqsUpTo(HtmlTokens, MaxTokens)} \cup {HelloHtml}

\* stripHtml is about to be called on one of the texts.
InitStrip ==
  /\ content_sources = InitSources
  /\ content_items = {}
  /\ summaries = {}
  /\ now = 0
  /\ pc = [p \in Procs |-> "idle"]
  /\ loc = [p \in Procs |-> IdleLoc]
  /\ resp = [p \in Procs |-> NoResp]
  /\ orch = [p \in Procs |-> NoOrch]
  /\ started = 0
  /\ cycles = 0
  /\ overlap = FALSE
  /\ examined = {}
  /\ prevMon = NoMon
  /\ faults = FALSE
  /\ config = NoEnv
  /\ storage_locations = {}
  /\ fan = NoFan
  /\ input \in {[NoInput EXCEPT !.fn = "stripHtml", !.text = t] : t \in HtmlInputs}
  /\ output = NoOutput

\* The call of stripHtml.
StripHtml ==
  /\ input.fn = "stripHtml"
  /\ ~output.done
  /\ output' = [NoOutput EXCEPT !.done = TRUE, !.text = stripHtml(input.text)]
  /\ UNCHANGED <<store, now, pc, loc, resp, orch, started, cycles, overlap,
                 examined, prevMon, faults, config, storage_locations, fan,
                 input>>

SpecStrip == InitStrip /\ [][StripHtml]_vars

\* ================================================================ claims
Summarizing(p) == loc[p].action = "summarize"
Monitoring(p) == loc[p].action = "monitor"
MonitorRunning == \E p \in Procs : Monitoring(p) /\ pc[p] \notin {"idle", "done"}
RowsOf(sid, url) == {r \in content_items : r.sourceId = sid /\ r.url = url}
SummariesOf(cid) == {r \in summaries : r.contentItemId = cid}
CycleDone(p) == orch[p].action = "monitor" /\ orch[p].pc = "o_done"

\* C1: with monitor runs that do not overlap, no (sourceId, url) pair ever
\* has two content_items rows, and once no run is in progress every pair a
\* run examined has exactly one row, however often it was fetched.
C1_OneItemPerPair ==
  /\ \A r1, r2 \in content_items :
       (r1.sourceId = r2.sourceId /\ r1.url = r2.url) => r1 = r2
  /\ ~MonitorRunning =>
       \A pair \in examined : Cardinality(RowsOf(pair[1], pair[2])) = 1

\* A second run of a source ended whose fetch held the same article twice,
\* and the article has its one row.
C1_Witness ==
  \E p \in Procs :
    /\ pc[p] = "done" /\ Monitoring(p) /\ resp[p].success /\ loc[p].repeat
    /\ Len(loc[p].fetched) = 2
    /\ loc[p].fetched[1] = loc[p].fetched[2]
    /\ loc[p].agent = "rss-agent"
    /\ loc[p].fetched[1].link # NoLink
    /\ Cardinality(RowsOf(loc[p].sourceId, loc[p].fetched[1].link)) = 1

\* C2: a monitor run that follows a successful run of the same source and
\* fetches the same data reports newItems = 0 and leaves content_items as
\* it found it.
C2_SecondRunAddsNothing ==
  \A p \in Procs :
    (pc[p] = "done" /\ Monitoring(p) /\ loc[p].repeat) =>
      /\ resp[p].success
      /\ resp[p].newItems = 0
      /\ content_items = loc[p].items0

\* Such a second run ended, for a fetch that holds an item with a locator.
C2_Witness ==
  \E p \in Procs :
    /\ pc[p] = "done" /\ Monitoring(p) /\ loc[p].repeat
    /\ resp[p].success /\ resp[p].newItems = 0
    /\ \E i \in 1..Len(loc[p].fetched) :
         /\ loc[p].agent = "rss-agent"
         /\ loc[p].fetched[i].link # NoLink
         /\ RowsOf(loc[p].sourceId, loc[p].fetched[i].link) # {}
         /\ RowsOf(loc[p].sourceId, loc[p].fetched[i].link) \subseteq loc[p].items0

\* C3: whatever summarize calls have succeeded, a content item has at most
\* one summaries row.
C3_AtMostOneSummary ==
  \A r1, r2 \in summaries : r1.contentItemId = r2.contentItemId => r1 = r2

CompleteJson(o) ==
  o.kind = "object" /\ \A f \in FiveFields : o[f] # Undef

\* C4: when two summarize calls for the same item overlap and the oracle
\* answers both with complete JSON, the item ends with exactly one summaries
\* row and both calls return success with the same summary data.
C4_ConcurrentSingleSummary ==
  \A p, q \in Procs :
    ( /\ p # q
      /\ pc[p] = "done" /\ pc[q] = "done"
      /\ Summarizing(p) /\ Summarizing(q)
      /\ loc[p].concurrent /\ loc[q].concurrent
      /\ loc[p].contentItemId = loc[q].contentItemId
      /\ CompleteJson(loc[p].oracle) /\ CompleteJson(loc[q].oracle) ) =>
      /\ Cardinality(SummariesOf(loc[p].contentItemId)) = 1
      /\ resp[p].success /\ resp[q].success
      /\ resp[p].data = resp[q].data

\* C5: in a finished monitoring cycle every selected source was dispatched
\* and has its own entry, which carries that source's outcome: a failed
\* source has success = false and its error, a source that succeeded has
\* its newItems, whatever happened to the sources before it.
C5_FetchIsolation ==
  \A p \in Procs :
    CycleDone(p) =>
      /\ Len(orch[p].raw) = Len(orch[p].sources)
      /\ Len(orch[p].results) = Len(orch[p].sources)
      /\ \A i \in 1..Len(orch[p].sources) :
           LET e == orch[p].results[i]
               r == orch[p].raw[i]
           IN  /\ e.sourceId = orch[p].sources[i].id
               /\ e.success = r.success
               /\ ~r.success => (e.error = r.error /\ e.error # "")
               /\ r.success => e.newItems = r.newItems

\* A cycle ended whose first source failed and in which a later source
\* succeeded and ingested items.
C5_Witness ==
  \E p \in Procs :
    /\ CycleDone(p)
    /\ Len(orch[p].results) >= 2
    /\ ~orch[p].results[1].success
    /\ \E j \in 2..Len(orch[p].results) :
         orch[p].results[j].success /\ orch[p].results[j].newItems > 0

C7_OracleFailureIsExplicit ==
  \A p \in Procs :
    (Summarizing(p) /\ loc[p].oracle.kind \in {"throw", "nonjson"}) =>
      /\ pc[p] = "done"
      /\ resp[p].set /\ ~resp[p].success /\ resp[p].error # ""
      /\ summaries = loc[p].sums0

\* A summarize call ended after the oracle returned text that is not JSON,
\* for an item that had been summarized before.
C7_Witness ==
  \E p \in Procs :
    /\ pc[p] = "done" /\ Summarizing(p)
    /\ loc[p].oracle.kind = "nonjson"
    /\ ~resp[p].success
    /\ SummariesOf(loc[p].contentItemId) # {}

\* C8: a summarize call returns success only when the oracle's JSON holds
\* all five fields; after any other oracle output the call fails and
\* summaries is what it was when the call began.
C8_AllFiveFieldsOrFailure ==
  \A p \in Procs :
    (pc[p] = "done" /\ Summarizing(p) /\ loc[p].oracleCalls > 0) =>
      /\ resp[p].success => CompleteJson(loc[p].oracle)
      /\ ~CompleteJson(loc[p].oracle) =>
           (~resp[p].success /\ summaries = loc[p].sums0)

NoContentErrors ==
  {"No content available for this article",
   "No transcript available for this video",
   "No content available for this newsletter"}

\* The item of the call was found, its content is empty and no transcript
\* was obtained for it.
EmptyText(p) ==
  loc[p].item # NoItem /\ loc[p].item.content = << >>
    /\ loc[p].transcript = << >>

\* C9: a summarize call for an item whose text is empty ends with the
\* failure 'no content (or transcript) available', the oracle is not
\* called and summaries is what it was when the call began.
C9_EmptyTextFails ==
  \A p \in Procs :
    Summarizing(p) =>
      /\ (pc[p] \in {"s_oracle", "s_insert"} \/ loc[p].oracleCalls > 0) =>
           (loc[p].transcript # << >> /\ loc[p].prompt # << >>)
      /\ (pc[p] = "done" /\ EmptyText(p)) =>
           /\ resp[p].set /\ ~resp[p].success
           /\ resp[p].error \in NoContentErrors
           /\ loc[p].oracleCalls = 0
           /\ summaries = loc[p].sums0

\* Calls ended for items of empty text: an article at the RSS agent, and a
\* video link at the YouTube agent whose transcript fetch came back empty.
C9_Witness ==
  \E p \in Procs :
    /\ pc[p] = "done" /\ Summarizing(p) /\ EmptyText(p)
    /\ loc[p].agent = "youtube-agent" /\ loc[p].fetchedTranscript
    /\ resp[p].error = "No transcript available for this video"

\* C10: the text passed to the oracle is the first 8000 characters of the
\* item's text when that is longer than 8000 characters, and the whole
\* text otherwise.
C10_Truncation ==
  \A p \in Procs :
    (Summarizing(p) /\ pc[p] = "s_oracle") =>
      LET text == loc[p].transcript
          sent == loc[p].prompt
      IN  /\ Len(text) > ContentCap =>
               /\ Len(sent) = ContentCap
               /\ \A i \in 1..ContentCap : sent[i] = text[i]
          /\ Len(text) <= ContentCap => sent = text

\* A text longer than the cap was cut to the cap.
C10_Witness ==
  \E p \in Procs :
    /\ Summarizing(p) /\ pc[p] = "s_oracle"
    /\ Len(loc[p].item.content) = ContentCap + TruncMargin
    /\ Len(loc[p].prompt) = ContentCap

Stored(i) == fan.outcomes[i] = "stored"

\* C11: storeSummaryMultiple returns normally exactly when at least one
\* requested provider stored the summary and throws exactly when none did;
\* from the call's start to its end the summaries table is what it was.
C11_SucceedsIffOneStored ==
  /\ fan.pc # "none" => summaries = fan.sums0
  /\ fan.pc = "done" =>
       /\ Len(fan.outcomes) = Len(fan.providers)
       /\ fan.returned \in {"return", "throw"}
       /\ fan.returned = "return" <=>
            \E i \in 1..Len(fan.outcomes) : Stored(i)
       /\ fan.returned = "throw" <=>
            \A i \in 1..Len(fan.outcomes) : ~Stored(i)

\* A call ended in which one provider stored the summary and another
\* failed, and the call returned normally.
C11_Witness ==
  /\ fan.pc = "done"
  /\ fan.returned = "return"
  /\ \E i, j \in 1..Len(fan.outcomes) : Stored(i) /\ ~Stored(j)
  /\ summaries # {}

IsError(e) == "error" \in DOMAIN e

\* C12: when some requested providers stored the summary and others failed,
\* the call returns normally and the value it returns has one entry per
\* requested provider, in order: the StorageLocation of a provider that
\* stored, an error for a provider that failed.
C12_EntryPerProvider ==
  ( /\ fan.pc = "done"
    /\ \E i, j \in 1..Len(fan.outcomes) : Stored(i) /\ ~Stored(j) ) =>
    /\ fan.returned = "return"
    /\ Len(fan.value) = Len(fan.providers)
    /\ \A i \in 1..Len(fan.providers) :
         IF Stored(i)
         THEN ~IsError(fan.value[i]) /\ fan.value[i].provider = fan.providers[i]
         ELSE IsError(fan.value[i])

\* C13: whatever replicate calls have been made, storage_locations holds at
\* most one row per (summaryId, provider) pair.
C13_OneLocationPerPair ==
  \A l1, l2 \in storage_locations :
    (l1.summaryId = l2.summaryId /\ l1.provider = l2.provider) => l1 = l2

\* A segment of a duration: empty, or digits followed by the letter.
DurSegment(seg, letter) ==
  seg = << >> \/ ( /\ Len(seg) >= 2
                   /\ seg[Len(seg)] = letter
                   /\ \A i \in 1..(Len(seg) - 1) : IsDigit(seg[i]) )

SegmentValue(seg) ==
  IF seg = << >> THEN 0 ELSE parseInt(SubSeq(seg, 1, Len(seg) - 1))

\* The ways to cut a string into PT, an H segment, an M segment and an S
\* segment: the string has the form PT[nH][nM][nS] when there is one.
DurCuts(t) ==
  IF Len(t) < 2 \/ t[1] # "P" \/ t[2] # "T" THEN {}
  ELSE {c \in (2..Len(t)) \X (2..Len(t)) :
          /\ c[1] <= c[2]
          /\ DurSegment(SubSeq(t, 3, c[1]), "H")
          /\ DurSegment(SubSeq(t, c[1] + 1, c[2]), "M")
          /\ DurSegment(SubSeq(t, c[2] + 1, Len(t)), "S")}

\* C14: parseDuration returns hours*3600 + minutes*60 + seconds for a
\* string of the form PT[nH][nM][nS] and 0 for every other string, the
\* empty string included.
C14_ParseDuration ==
  output.done =>
    LET t == input.text
    IN  IF DurCuts(t) = {} THEN output.seconds = 0
        ELSE \A c \in DurCuts(t) :
               output.seconds =
                 SegmentValue(SubSeq(t, 3, c[1])) * 3600
                   + SegmentValue(SubSeq(t, c[1] + 1, c[2])) * 60
                   + SegmentValue(SubSeq(t, c[2] + 1, Len(t)))

\* The five entities and the character each stands for.
Entities ==
  { <<Nbsp, " ">>, <<Amp, "&">>, <<Lt, "<">>, <<Gt, ">">>, <<Quot, "\"">> }

RECURSIVE DecodeOnce(_)
\* One pass over the text, left to right: an entity becomes its character,
\* and what a decoding produces is not decoded again.
DecodeOnce(t) ==
  IF t = << >> THEN << >>
  ELSE IF \E e \in Entities : IsPrefix(e[1], t)
       THEN LET e == CHOOSE x \in Entities : IsPrefix(x[1], t)
            IN  <<e[2]>> \o DecodeOnce(SubSeq(t, Len(e[1]) + 1, Len(t)))
       ELSE <<Head(t)>> \o DecodeOnce(Tail(t))

\* C15: stripHtml yields the text without its tags in which every
\* occurrence of the five entities is decoded exactly once (and the
\* surrounding white space is trimmed); "<p>Hello &amp; welcome</p>" yields
\* "Hello & welcome".
C15_StripHtml ==
  (output.done /\ input.fn = "stripHtml") =>
    /\ output.text = trim(DecodeOnce(StripTags(input.text)))
    /\ input.text = HelloHtml =>
         output.text = <<"H", "e", "l", "l", "o", " ", "&", " ",
                         "w", "e", "l", "c", "o", "m", "e">>

\* The monitor run of p is over.
MonitorOver(p) == Monitoring(p) /\ pc[p] = "done"

\* C16: when a monitor run whose fetch succeeded is over, the lastChecked
\* of its source is the current time, whatever became of the candidates, a
\* rejected insert included.
C16_LastCheckedAfterRun ==
  \A p \in Procs :
    (MonitorOver(p) /\ loc[p].fetchOk) =>
      \A r \in content_sources :
        r.id = loc[p].sourceId => r.lastChecked = now

\* C17: a monitor run whose fetch failed as a whole (the feed could not be
\* read, the list call threw) answers with a failure that carries an error,
\* never with a success.
C17_FetchFailureIsFailure ==
  \A p \in Procs :
    (MonitorOver(p) /\ loc[p].fetchFailed) =>
      /\ resp[p].set
      /\ ~resp[p].success
      /\ resp[p].error # ""

\* C18: in the newsletter monitor, the step that follows a failed
\* get-detail call creates no content item for the message and goes on
\* with the remaining messages.
C18_FailedDetailIsSkipped ==
  [][\A p \in Procs :
       (/\ At(p, "newsletter-agent", "m_insert")
        /\ loc[p].detailFailed
        /\ pc'[p] # pc[p]) =>
         /\ content_items' = content_items
         /\ loc'[p].cands = Tail(loc[p].cands)
         /\ pc'[p] = "m_loop"]_vars

\* C19: with monitor runs that overlap, no (sourceId, url) pair ever has
\* two content_items rows: the store rejects the second insert.
C19_StoreKeepsPairsUnique ==
  \A sid \in SourceIds :
    \A url \in {r.url : r \in content_items} :
      Cardinality(RowsOf(sid, url)) <= 1

\* The locators of the candidates the run of p fetched.
Locators(p) ==
  LET f == loc[p].fetched
  IN  IF loc[p].agent = "rss-agent"
      THEN {f[i].link : i \in DOMAIN f} \ {NoLink}
      ELSE IF loc[p].agent = "newsletter-agent"
      THEN {GmailUrl(MessageKey(f[i])) : i \in DOMAIN Take(f, MessageCap)}
             \ {GmailUrl(NoId)}
      ELSE {WatchUrl(f[i].id) : i \in DOMAIN f}

\* C20: a monitor run in which the store rejected an insert because the
\* item already exists reports success, and every candidate it fetched has
\* been looked at.
C20_ConflictIsNotFatal ==
  \A p \in Procs :
    (MonitorOver(p) /\ loc[p].insertRejected = "duplicate") =>
      /\ resp[p].set
      /\ resp[p].success
      /\ \A url \in Locators(p) : <<loc[p].sourceId, url>> \in examined

\* The number of the first i providers of the call that ended as o.
CountOutcome(o, i) == Cardinality({j \in 1..i : fan.outcomes[j] = o})

\* C21: when storeSummaryMultiple ends, every requested provider has been
\* attempted, in the given order: a provider that is unknown or not
\* configured has failed, each failure is in errors and each stored
\* location in results, at the place its provider has in the call.
C21_EveryProviderAttempted ==
  fan.pc = "done" =>
    /\ Len(fan.outcomes) = Len(fan.providers)
    /\ Len(fan.errors) + Len(fan.results) = Len(fan.providers)
    /\ \A i \in 1..Len(fan.providers) :
         LET provider == fan.providers[i]
         IN  /\ (provider \notin Providers \/ ~config[provider]) =>
                  fan.outcomes[i] = "failed"
             /\ fan.outcomes[i] = "failed" =>
                  /\ CountOutcome("failed", i) <= Len(fan.errors)
                  /\ fan.errors[CountOutcome("failed", i)][1] = provider
             /\ fan.outcomes[i] = "stored" =>
                  /\ CountOutcome("stored", i) <= Len(fan.results)
                  /\ fan.results[CountOutcome("stored", i)].provider = provider

\* A call has ended in which a provider failed and the provider after it
\* stored the summary.
C21_Witness ==
  /\ fan.pc = "done"
  /\ \E i \in 1..(Len(fan.providers) - 1) :
       /\ fan.outcomes[i] = "failed"
       /\ fan.outcomes[i + 1] = "stored"
       /\ Len(fan.errors) = 1
       /\ Len(fan.results) = 1

C23_ItemsNeverChange ==
  [][/\ \A r \in content_items : r \in content_items'
     /\ \A r \in content_items' \ content_items :
          \A q \in content_items : q.id # r.id]_vars

\* A video summarize call that fetched the transcript on demand has ended
\* with success, and the item still has the empty content it was created
\* with.
C23_Witness ==
  \E p \in Procs :
    /\ pc[p] = "done" /\ Summarizing(p)
    /\ loc[p].agent = "youtube-agent" /\ loc[p].fetchedTranscript
    /\ resp[p].success
    /\ loc[p].item \in content_items
    /\ loc[p].item.content = << >>
    /\ loc[p].transcript # << >>

\* The source of p's monitor run is a YouTube source without stored
\* channelId whose URL has none of the four shapes.
Unresolvable(p) ==
  \E r \in content_sources :
    /\ r.id = loc[p].sourceId /\ r.type = "youtube"
    /\ r.channelId = NoId
    /\ r.url.shape \notin {"channel", "c", "user", "at"}

\* C24: a YouTube monitor run for such a source never gets to the fetch;
\* it ends with the failure 'Could not extract channel ID from source',
\* content_items is what it was when the run began and the source row is
\* the row the service started with.
C24_NoChannelIdFails ==
  \A p \in Procs :
    (Monitoring(p) /\ loc[p].agent = "youtube-agent" /\ Unresolvable(p)) =>
      /\ pc[p] \in {"m_source", "done"}
      /\ pc[p] = "done" =>
           /\ resp[p].set /\ ~resp[p].success
           /\ resp[p].error = "Could not extract channel ID from source"
           /\ content_items = loc[p].items0
      /\ \A r \in content_sources :
           r.id = loc[p].sourceId => r \in InitSources

\* Such a run has ended, for the source s5.
C24_Witness ==
  \E p \in Procs :
    /\ MonitorOver(p) /\ loc[p].agent = "youtube-agent" /\ Unresolvable(p)
    /\ loc[p].sourceId = "s5"
    /\ resp[p].error = "Could not extract channel ID from source"

\* The places, in the order of preference, of the fields of the item that
\* are there and not empty.
Preference == <<"encoded", "content", "description", "summary",
                "contentSnippet">>

Filled(item) ==
  {i \in 1..5 : item[Preference[i]] # Absent /\ item[Preference[i]] # << >>}

\* C25: extractContent returns stripHtml of the first field, in the order
\* content:encoded, content, description, summary, contentSnippet, that is
\* there and not empty, and the empty string when there is none.
C25_FirstNonEmptyField ==
  (output.done /\ input.fn = "extractContent") =>
    LET item == input.item
        first == CHOOSE i \in Filled(item) : \A j \in Filled(item) : i <= j
    IN  IF Filled(item) = {}
        THEN output.text = << >>
        ELSE output.text = stripHtml(item[Preference[first]])

\* extractContent returned the text of the description of an item that
\* has no encoded content, an empty content, and a summary and a snippet.
C25_Witness ==
  /\ output.done /\ input.fn = "extractContent"
  /\ input.item.encoded = Absent
  /\ input.item.content = << >>
  /\ input.item.description = <<"<", "p", ">", "b", "<", "/", "p", ">">>
  /\ input.item.summary = <<"a">>
  /\ input.item.contentSnippet = <<"a">>
  /\ output.text = <<"b">>

\* The process_email call of p is over.
EmailOver(p) == loc[p].action = "process_email" /\ pc[p] = "done"

\* The rows a process_email call for this source and text leaves behind.
EmailRows(sid, text) ==
  {r \in content_items : r.sourceId = sid /\ r.type = "newsletter"
                           /\ r.url = NoLink /\ r.content = text}

\* C26: a process_email call that has an emailContent and a sourceId ends
\* in success and has added exactly one content item, without url and
\* under an id no row had, whatever items existed: also when an item of
\* the same source with the same text was there already.
C26_EveryCallInserts ==
  \A p \in Procs :
    (EmailOver(p) /\ loc[p].emailContent \notin {NoEmail, <<EmptyLine>>}
       /\ loc[p].sourceId # NoSource) =>
      /\ resp[p].success
      /\ loc[p].items0 \subseteq content_items
      /\ Cardinality(content_items \ loc[p].items0) = 1
      /\ \A r \in content_items \ loc[p].items0 :
           /\ r.sourceId = loc[p].sourceId /\ r.url = NoLink
           /\ r.type = "newsletter"
           /\ \A q \in loc[p].items0 : q.id # r.id

\* The same email has been processed for the same source a second time,
\* and the source has two items with its text.
C26_Witness ==
  \E p \in Procs :
    /\ EmailOver(p) /\ resp[p].success
    /\ loc[p].emailContent = <<Line("Subject:", <<"N">>), EmptyLine,
                               Line("", <<"b">>)>>
    /\ Cardinality(EmailRows(loc[p].sourceId, <<"b">>) \cap loc[p].items0) = 1
    /\ Cardinality(EmailRows(loc[p].sourceId, <<"b">>)) = 2

\* The urls of the messages at the first ten places of the listing the
\* run of p fetched.
FirstTen(p) ==
  {GmailUrl(MessageKey(loc[p].fetched[i]))
     : i \in {j \in DOMAIN loc[p].fetched : j <= 10}}

\* C27: a newsletter monitor run adds at most ten content items, each for
\* a message at one of the first ten places of its listing; the message
\* k11, beyond the tenth place of every listing, never has an item.
C27_FirstTenOnly ==
  /\ \A p \in Procs :
       (Monitoring(p) /\ loc[p].agent = "newsletter-agent") =>
         /\ loc[p].newItems <= 10
         /\ Cardinality(content_items \ loc[p].items0) <= 10
         /\ \A r \in content_items \ loc[p].items0 : r.url \in FirstTen(p)
  /\ \A r \in content_items : r.url # GmailUrl("k11")

\* A third run has ended whose listings all had k11 beyond the tenth
\* place: the ten messages before it and the message that arrived later
\* have their items.
C27_Witness ==
  \E p \in Procs :
    /\ MonitorOver(p) /\ loc[p].agent = "newsletter-agent"
    /\ resp[p].success /\ started = 3
    /\ Len(loc[p].fetched) = 12
    /\ Cardinality(content_items) = 11
    /\ \E r \in content_items : r.url = GmailUrl("k10")

\* p serves an orchestrator summarize request whose payload has a
\* contentItemId and no userId.
NoUserRequest(p) ==
  /\ orch[p].action = "summarize"
  /\ orch[p].payloadItem # NoItemId
  /\ orch[p].payloadUser = NoUser

\* C28: such a request never gets to the oracle and never changes
\* summaries; it ends in failure, and when the orchestrator delegated it,
\* the agent's answer is the failure 'contentItemId and userId are
\* required for summarization'.
C28_NoUserIdFails ==
  \A p \in Procs :
    NoUserRequest(p) =>
      /\ pc[p] \in {"idle", "s_load", "done"}
      /\ loc[p].oracleCalls = 0
      /\ summaries = orch[p].sums0
      /\ orch[p].pc = "o_done" => (orch[p].resp.set /\ ~orch[p].resp.success)
      /\ (orch[p].runs = 1 /\ pc[p] = "done") =>
           /\ ~resp[p].success
           /\ resp[p].error =
                "contentItemId and userId are required for summarization"

\* Such a request for an existing newsletter item has ended with the
\* agent's failure.
C28_Witness ==
  \E p \in Procs :
    /\ NoUserRequest(p) /\ orch[p].pc = "o_done" /\ orch[p].runs = 1
    /\ loc[p].agent = "newsletter-agent"
    /\ \E r \in content_items :
         r.id = orch[p].payloadItem /\ r.content # << >>
    /\ orch[p].resp.error =
         "contentItemId and userId are required for summarization"

\* C29: the step of a remove_source call that has a sourceId removes the
\* content_sources row of that id and nothing else: content_items and
\* summaries are unchanged, and the items of the source are left with a
\* sourceId that no source row has.
C29_RemoveLeavesItems ==
  [][\A p \in Procs :
       (/\ At(p, "youtube-agent", "r_remove")
        /\ loc[p].sourceId # NoSource
        /\ pc'[p] = "done") =>
         /\ content_sources' =
              {r \in content_sources : r.id # loc[p].sourceId}
         /\ content_items' = content_items
         /\ summaries' = summaries
         /\ \A i \in content_items :
              i.sourceId = loc[p].sourceId =>
                /\ i \in content_items'
                /\ \A r \in content_sources' : r.id # i.sourceId]_vars

\* A remove_source call for a source that has an item with a summary has
\* ended: the item and the summary are there, the source row is not.
C29_Witness ==
  \E p \in Procs :
    /\ pc[p] = "done" /\ loc[p].action = "remove_source" /\ resp[p].success
    /\ \A r \in content_sources : r.id # loc[p].sourceId
    /\ \E i \in content_items :
         /\ i.sourceId = loc[p].sourceId
         /\ \E x \in summaries : x.contentItemId = i.id

\* The number of space-separated parts of a query: one more than the
\* number of its blanks.
Tokens(query) ==
  Cardinality({i \in 1..Len(query) : query[i] = " "}) + 1

\* One query for every number of parts from 1 to MaxQueryLen + 1.
Blanks(n) == [i \in 1..n |-> " "]

\* C30: calculateConfidence(resultsCount, query), in the agent and in the
\* service, is min(min(20*resultsCount, 80) + min(2*tokens, 20), 95) with
\* tokens the number of space-separated parts of the query; the result is
\* in 2..95 and no call with at least as many results and at least as many
\* parts gives less.
C30_ConfidenceFormula ==
  (output.done /\ input.fn \in ConfidenceFns) =>
    /\ output.confidence =
         Min(Min(20 * input.count, 80) + Min(2 * Tokens(input.text), 20), 95)
    /\ output.confidence \in 2..95
    /\ \A n \in input.count..MaxResults, k \in 0..MaxQueryLen :
         Tokens(Blanks(k)) >= Tokens(input.text) =>
           ConfidenceOf(input.fn, n, Blanks(k)) >= output.confidence

\* A call in which both inner bounds and the outer one act: more than four
\* results and more than ten parts give 95.
C30_Witness ==
  /\ output.done /\ input.fn = "calculateConfidence"
  /\ 20 * input.count > 80
  /\ 2 * Tokens(input.text) > 20
  /\ output.confidence = 95

====
